---- MODULE Spec2Model ----
(***************************************************************************)
(* Mapping engine: identity-provider events -> relationship tuples in an   *)
(* authorization store.  Strings are TLA+ strings (\o is concatenation),   *)
(* the event is a tree of JSON values, a rule set is a MappingConfig.      *)
(***************************************************************************)
EXTENDS Integers, Sequences, FiniteSets, Bags, TLC

(* ---------------------------------------------------------------------- *)
(* JSON values of the decoded event (map[string]interface{})              *)
(* ---------------------------------------------------------------------- *)
EmptyMap == [k \in {} |-> 0]

JNull == [kind |-> "null", s |-> "", b |-> FALSE, m |-> EmptyMap]

JStr(str) == [kind |-> "string", s |-> str, b |-> FALSE, m |-> EmptyMap]

JBool(bv) == [kind |-> "bool", s |-> "", b |-> bv, m |-> EmptyMap]

JNum == [kind |-> "number", s |-> "", b |-> FALSE, m |-> EmptyMap]

JMap(fn) == [kind |-> "map", s |-> "", b |-> FALSE, m |-> fn]

(* v[key] of a Go map: the value, or nil when the key is absent *)
MapIndex(v, key) == IF key \in DOMAIN v.m THEN v.m[key] ELSE JNull

(* ---------------------------------------------------------------------- *)
(* types: EventMapping, TupleDefinition, TupleMapping, MappingConfig,     *)
(* ProcessedTuple                                                         *)
(* ---------------------------------------------------------------------- *)
EventMapping(type, action) == [Type |-> type, Action |-> action]

ProcessedTuple(user, relation, object) ==
    [User |-> user, Relation |-> relation, Object |-> object]

TupleDefinition(user, relation, object) ==
    [User |-> user, Relation |-> relation, Object |-> object]

TupleMapping(condition, tuple) == [Condition |-> condition, Tuple |-> tuple]

MappingConfig(events, mappings) == [Events |-> events, Mappings |-> mappings]

(* A template string is a sequence of parts: literal text, an action       *)
(* {{ .a.b.c }} with its field chain, or an action that does not parse.    *)
Lit(str) == [kind |-> "lit", s |-> str, path |-> <<>>]

Field(path) == [kind |-> "field", s |-> "", path |-> path]

Malformed == [kind |-> "malformed", s |-> "", path |-> <<>>]

(* A condition string is the expression it parses to; "" is no condition.  *)
(*   CEqTrue(p)   p == true          CNeNil(p)   p != nil                  *)
(*   CAnd(l, r)   l && r             CPath(p)    p        (not a boolean)  *)
(*   CInvalid     a string that does not compile                           *)
CNone == [op |-> "", path |-> <<>>, args |-> <<>>]

CEqTrue(path) == [op |-> "eqTrue", path |-> path, args |-> <<>>]

CNeNil(path) == [op |-> "neNil", path |-> path, args |-> <<>>]

CPath(path) == [op |-> "path", path |-> path, args |-> <<>>]

CAnd(l, r) == [op |-> "and", path |-> <<>>, args |-> <<l, r>>]

CInvalid == [op |-> "invalid", path |-> <<>>, args |-> <<>>]

(* ---------------------------------------------------------------------- *)
(* Condition evaluation (expr.Compile with expr.Env(event), expr.Run)     *)
(* ---------------------------------------------------------------------- *)
(* runtime.Fetch along a member chain: a missing key of a map is nil;      *)
(* fetching from nil or from a scalar is a run-time error.                 *)
RECURSIVE Fetch(_, _)
Fetch(v, path) ==
    IF path = <<>> THEN [err |-> FALSE, v |-> v]
    ELSE IF v.kind # "map" THEN [err |-> TRUE, v |-> JNull]
    ELSE Fetch(MapIndex(v, Head(path)), Tail(path))

(* The strict map environment: every identifier the expression starts a    *)
(* chain with must be a key of the event, or it does not compile.          *)
RECURSIVE Compiles(_, _)
Compiles(cond, event) ==
    CASE cond.op = "invalid" -> FALSE
      [] cond.op = "and" ->
            Compiles(cond.args[1], event) /\ Compiles(cond.args[2], event)
      [] OTHER -> cond.path # <<>> /\ Head(cond.path) \in DOMAIN event

(* expr.Run: the value of the expression, or a run-time error *)
RECURSIVE Run(_, _)
Run(cond, event) ==
    CASE cond.op = "and" ->
            LET l == Run(cond.args[1], event) IN
            IF l.err THEN l
            ELSE IF l.v.kind # "bool" THEN [err |-> TRUE, v |-> JNull]
            ELSE IF ~l.v.b THEN l   \* short circuit: the right is not run
            ELSE Run(cond.args[2], event)
      [] cond.op = "eqTrue" ->
            LET f == Fetch(JMap(event), cond.path) IN
            IF f.err THEN f ELSE [err |-> FALSE, v |-> JBool(f.v = JBool(TRUE))]
      [] cond.op = "neNil" ->
            LET f == Fetch(JMap(event), cond.path) IN
            IF f.err THEN f ELSE [err |-> FALSE, v |-> JBool(f.v.kind # "null")]
      [] OTHER -> Fetch(JMap(event), cond.path)

(* evaluateCondition: (result, err) *)
evaluateCondition(condition, event) ==
    IF ~Compiles(condition, event) THEN [err |-> "compile", result |-> FALSE]
    ELSE LET output == Run(condition, event) IN
         IF output.err THEN [err |-> "run", result |-> FALSE]
         ELSE IF output.v.kind # "bool"
              THEN [err |-> "condition did not evaluate to boolean",
                    result |-> FALSE]
         ELSE [err |-> "", result |-> output.v.b]

(* ---------------------------------------------------------------------- *)
(* Template rendering (text/template, default missingkey option)          *)
(* ---------------------------------------------------------------------- *)
NoValue == "<no value>"

(* evalFieldChain: a missing key gives no value and so does every field    *)
(* after it; a field of nil or of a scalar is an execution error.          *)
RECURSIVE EvalFieldChain(_, _, _)
EvalFieldChain(v, valid, path) ==
    IF path = <<>> THEN [err |-> FALSE, valid |-> valid, v |-> v]
    ELSE IF ~valid THEN EvalFieldChain(JNull, FALSE, Tail(path))
    ELSE IF v.kind # "map" THEN [err |-> TRUE, valid |-> FALSE, v |-> JNull]
    ELSE IF Head(path) \in DOMAIN v.m
         THEN EvalFieldChain(v.m[Head(path)], TRUE, Tail(path))
         ELSE EvalFieldChain(JNull, FALSE, Tail(path))

(* printValue *)
PrintValue(r) ==
    IF ~r.valid \/ r.v.kind = "null" THEN NoValue
    ELSE IF r.v.kind = "string" THEN r.v.s
    ELSE IF r.v.kind = "bool" THEN (IF r.v.b THEN "true" ELSE "false")
    ELSE IF r.v.kind = "number" THEN "1"
    ELSE "map[]"

(* processTemplate: (string, err) *)
RECURSIVE processTemplate(_, _)
processTemplate(templateStr, event) ==
    IF \E i \in 1..Len(templateStr) : templateStr[i].kind = "malformed"
    THEN [err |-> "parse", str |-> ""]
    ELSE IF templateStr = <<>> THEN [err |-> "", str |-> ""]
    ELSE LET part == Head(templateStr)
             rest == processTemplate(Tail(templateStr), event)
         IN IF part.kind = "lit"
            THEN [err |-> rest.err,
                  str |-> IF rest.err = "" THEN part.s \o rest.str ELSE ""]
            ELSE LET r == EvalFieldChain(JMap(event), TRUE, part.path) IN
                 IF r.err THEN [err |-> "exec", str |-> ""]
                 ELSE [err |-> rest.err,
                       str |-> IF rest.err = "" THEN PrintValue(r) \o rest.str
                               ELSE ""]

NoTuple == ProcessedTuple("", "", "")

(* processTemplates: (ProcessedTuple, err) *)
processTemplates(tupleDefinition, event) ==
    LET user == processTemplate(tupleDefinition.User, event)
        relation == processTemplate(tupleDefinition.Relation, event)
        object == processTemplate(tupleDefinition.Object, event)
    IN IF user.err # "" THEN [err |-> "user template", tuple |-> NoTuple]
       ELSE IF relation.err # ""
            THEN [err |-> "relation template", tuple |-> NoTuple]
       ELSE IF object.err # ""
            THEN [err |-> "object template", tuple |-> NoTuple]
       ELSE [err |-> "",
             tuple |-> ProcessedTuple(user.str, relation.str, object.str)]

(* ---------------------------------------------------------------------- *)
(* evaluateMappings: (results, err), the loop over the mappings            *)
(* ---------------------------------------------------------------------- *)
(* A loop that would pass over a rule whose condition or rendering fails:   *)
(* what fail-fast rules out.                                               *)
RECURSIVE evaluateMappingsSkipping(_, _)
evaluateMappingsSkipping(event, mappings) ==
    IF mappings = <<>> THEN [err |-> "", results |-> <<>>]
    ELSE LET mapping == Head(mappings)
             rest == evaluateMappingsSkipping(event, Tail(mappings))
             c == IF mapping.Condition # CNone
                  THEN evaluateCondition(mapping.Condition, event)
                  ELSE [err |-> "", result |-> TRUE]
             t == processTemplates(mapping.Tuple, event)
         IN IF c.err # "" \/ ~c.result \/ t.err # "" THEN rest
            ELSE [err |-> "", results |-> <<t.tuple>> \o rest.results]

(* A loop that would stop at the first rule whose condition is false: what *)
(* the independence of the rules rules out.                                *)
RECURSIVE evaluateMappingsUntilFalse(_, _)
evaluateMappingsUntilFalse(event, mappings) ==
    IF mappings = <<>> THEN [err |-> "", results |-> <<>>]
    ELSE LET mapping == Head(mappings)
             c == IF mapping.Condition # CNone
                  THEN evaluateCondition(mapping.Condition, event)
                  ELSE [err |-> "", result |-> TRUE]
             t == processTemplates(mapping.Tuple, event)
         IN IF c.err # "" THEN [err |-> "failed to evaluate condition",
                                results |-> <<>>]
            ELSE IF ~c.result THEN [err |-> "", results |-> <<>>]
            ELSE IF t.err # "" THEN [err |-> "failed to process templates",
                                     results |-> <<>>]
            ELSE LET rest == evaluateMappingsUntilFalse(event, Tail(mappings))
                 IN [err |-> rest.err,
                     results |-> IF rest.err = ""
                                 THEN <<t.tuple>> \o rest.results ELSE <<>>]

RECURSIVE evaluateMappingsFrom(_, _, _, _)
evaluateMappingsFrom(event, mappings, i, results) ==
    IF i > Len(mappings) THEN [err |-> "", results |-> results]
    ELSE LET mapping == mappings[i]
             c == IF mapping.Condition # CNone
                  THEN evaluateCondition(mapping.Condition, event)
                  ELSE [err |-> "", result |-> TRUE]
         IN IF c.err # ""
            THEN [err |-> "failed to evaluate condition", results |-> <<>>]
            ELSE IF ~c.result
                 THEN evaluateMappingsFrom(event, mappings, i + 1, results)
            ELSE LET t == processTemplates(mapping.Tuple, event) IN
                 IF t.err # ""
                 THEN [err |-> "failed to process templates", results |-> <<>>]
                 ELSE evaluateMappingsFrom(event, mappings, i + 1,
                                           Append(results, t.tuple))

evaluateMappings(event, mappings) ==
    evaluateMappingsFrom(event, mappings, 1, <<>>)

(* ---------------------------------------------------------------------- *)
(* extractUserID: (id, err)                                                *)
(* ---------------------------------------------------------------------- *)
(* An extraction that would give the empty ID where no path has one *)
extractUserIDOrEmpty(event) ==
    LET id == MapIndex(MapIndex(MapIndex(JMap(event), "data"), "object"), "id")
    IN [err |-> "", id |-> IF id.kind = "string" THEN id.s ELSE ""]

extractUserID(event) ==
    LET data == MapIndex(JMap(event), "data") IN
    IF data.kind # "map"
    THEN [err |-> "data field not found or not an object", id |-> ""]
    ELSE LET object == MapIndex(data, "object") IN
         IF object.kind # "map"
         THEN [err |-> "data.object field not found or not an object",
               id |-> ""]
         ELSE IF MapIndex(object, "user_id").kind = "string"
              THEN [err |-> "", id |-> MapIndex(object, "user_id").s]
         ELSE IF MapIndex(object, "id").kind = "string"
              THEN [err |-> "", id |-> MapIndex(object, "id").s]
         ELSE IF /\ MapIndex(object, "user").kind = "map"
                 /\ MapIndex(MapIndex(object, "user"), "user_id").kind
                        = "string"
              THEN [err |-> "",
                    id |-> MapIndex(MapIndex(object, "user"), "user_id").s]
         ELSE [err |-> "could not extract user/entity ID from event",
               id |-> ""]

(* ---------------------------------------------------------------------- *)
(* Sequences and sets                                                      *)
(* ---------------------------------------------------------------------- *)
Range(seq) == {seq[i] : i \in 1..Len(seq)}

(* every sequence that lists each element of S once *)
RECURSIVE Orderings(_)
Orderings(S) ==
    IF S = {} THEN {<<>>}
    ELSE UNION {{<<x>> \o rest : rest \in Orderings(S \ {x})} : x \in S}

(* one sequence that lists each element of S once *)
RECURSIVE SetToSeq(_)
SetToSeq(S) ==
    IF S = {} THEN <<>>
    ELSE LET x == CHOOSE y \in S : TRUE IN <<x>> \o SetToSeq(S \ {x})

(* the bag of the elements of a sequence *)
RECURSIVE SeqToBag(_)
SeqToBag(seq) ==
    IF seq = <<>> THEN EmptyBag
    ELSE SetToBag({Head(seq)}) (+) SeqToBag(Tail(seq))

(* fmt.Sprintf("%s#%s#%s", tuple.User, tuple.Relation, tuple.Object) *)
TupleKey(tuple) ==
    tuple.User \o "#" \o tuple.Relation \o "#" \o tuple.Object

(* ---------------------------------------------------------------------- *)
(* readExistingTuples: the filter over response.Tuples                     *)
(* ---------------------------------------------------------------------- *)
(* The store lists its tuples in an order of its own.  The engine reads    *)
(* the list only into a map by TupleKey and into a request, so all that    *)
(* an order decides is which tuple of a key comes last: one listing for    *)
(* each choice of the last tuple of every key.                             *)
RECURSIVE LastOfKeys(_, _)
LastOfKeys(keys, tuples) ==
    IF keys = {} THEN {{}}
    ELSE LET key == CHOOSE k \in keys : TRUE IN
         {rest \cup {t} : rest \in LastOfKeys(keys \ {key}, tuples),
                          t \in {u \in tuples : TupleKey(u) = key}}

Listings(tuples) ==
    {SetToSeq(tuples \ lasts) \o SetToSeq(lasts)
        : lasts \in LastOfKeys({TupleKey(t) : t \in tuples}, tuples)}

userKey(entityID) == "user:" \o entityID

orgKey(entityID) == "organization:" \o entityID

InScope(tuple, entityID) ==
    \/ tuple.User = userKey(entityID)
    \/ tuple.User = orgKey(entityID)
    \/ tuple.Object = orgKey(entityID)

(* the lists readExistingTuples can return when the store holds `tuples` *)
readExistingTuples(tuples, entityID) ==
    {SelectSeq(response, LAMBDA t : InScope(t, entityID))
        : response \in Listings(tuples)}

(* ---------------------------------------------------------------------- *)
(* calculateTupleChanges                                                   *)
(* ---------------------------------------------------------------------- *)
(* A map that would hold the first tuple of a list only *)
TupleMapOfHead(tuples) ==
    IF tuples = <<>> THEN EmptyMap
    ELSE (TupleKey(tuples[1]) :> tuples[1])

(* the map built by the loop m[key] = tuple: the last tuple of a key stays *)
RECURSIVE TupleMap(_)
TupleMap(tuples) ==
    IF tuples = <<>> THEN EmptyMap
    ELSE LET last == tuples[Len(tuples)] IN
         (TupleKey(last) :> last) @@ TupleMap(SubSeq(tuples, 1, Len(tuples) - 1))

(* A diff that would delete the stale tuples and add none *)
calculateDeletionsOnly(existing, new) ==
    LET existingMap == TupleMap(existing)
        newMap == TupleMap(new)
    IN {<<>>}
         \X Orderings({existingMap[key]
                          : key \in DOMAIN existingMap \ DOMAIN newMap})

(* A diff that would add the missing tuples and delete none *)
calculateAdditionsOnly(existing, new) ==
    LET existingMap == TupleMap(existing)
        newMap == TupleMap(new)
    IN Orderings({newMap[key] : key \in DOMAIN newMap \ DOMAIN existingMap})
          \X {<<>>}

(* A diff that would walk the two lists instead of the two maps, keeping  *)
(* every listed tuple whose key the other side lacks                    *)
calculateTupleChangesPerElement(existing, new) ==
    LET existingMap == TupleMap(existing)
        newMap == TupleMap(new)
        Added(t) == TupleKey(t) \notin DOMAIN existingMap
        Deleted(t) == TupleKey(t) \notin DOMAIN newMap
    IN {<<SelectSeq(new, Added), SelectSeq(existing, Deleted)>>}

(* A diff that would replace the scope: delete every existing tuple and   *)
(* add every new one                                                     *)
calculateReplaceAll(existing, new) ==
    LET existingMap == TupleMap(existing)
        newMap == TupleMap(new)
    IN Orderings({newMap[key] : key \in DOMAIN newMap})
          \X Orderings({existingMap[key] : key \in DOMAIN existingMap})

(* The pairs <<tuplesToAdd, tuplesToDelete>> the function can return: the  *)
(* two result loops range over Go maps, whose iteration order is not       *)
(* specified.                                                              *)
calculateTupleChanges(existing, new) ==
    LET existingMap == TupleMap(existing)
        newMap == TupleMap(new)
        tuplesToAdd ==
            {newMap[key] : key \in DOMAIN newMap \ DOMAIN existingMap}
        tuplesToDelete ==
            {existingMap[key] : key \in DOMAIN existingMap \ DOMAIN newMap}
    IN Orderings(tuplesToAdd) \X Orderings(tuplesToDelete)

(* ---------------------------------------------------------------------- *)
(* Rule sets                                                               *)
(* ---------------------------------------------------------------------- *)
P(name) == <<"data", "object", name>>

P2(name, sub) == <<"data", "object", name, sub>>

UserIdTemplate == <<Lit("user:"), Field(P("user_id"))>>

(* user-mappings.yaml *)
UserConfig ==
    MappingConfig(
      <<EventMapping("user.created", "create"),
        EventMapping("user.updated", "update"),
        EventMapping("user.deleted", "delete")>>,
      <<TupleMapping(CEqTrue(P("email_verified")),
          TupleDefinition(UserIdTemplate, <<Lit("email_verified")>>,
                          UserIdTemplate)),
        TupleMapping(CEqTrue(P("phone_verified")),
          TupleDefinition(UserIdTemplate, <<Lit("phone_verified")>>,
                          UserIdTemplate)),
        TupleMapping(CEqTrue(P("blocked")),
          TupleDefinition(UserIdTemplate, <<Lit("blocked")>>,
                          UserIdTemplate)),
        TupleMapping(CAnd(CNeNil(P("app_metadata")),
                          CNeNil(P2("app_metadata", "manager"))),
          TupleDefinition(UserIdTemplate, <<Lit("manager")>>,
            <<Lit("user:"), Field(P2("app_metadata", "manager"))>>)),
        TupleMapping(CAnd(CNeNil(P("user_metadata")),
                          CNeNil(P2("user_metadata", "manager_id"))),
          TupleDefinition(UserIdTemplate, <<Lit("manager")>>,
            <<Lit("user:"), Field(P2("user_metadata", "manager_id"))>>))>>)

(* configs/organization-mappings.yaml *)
OrgConfig ==
    MappingConfig(
      <<EventMapping("organization.created", "create"),
        EventMapping("organization.updated", "update"),
        EventMapping("organization.deleted", "delete")>>,
      <<TupleMapping(CAnd(CNeNil(P("metadata")),
                          CNeNil(P2("metadata", "external_org_id"))),
          TupleDefinition(
            <<Lit("external_org:"), Field(P2("metadata", "external_org_id"))>>,
            <<Lit("external_org")>>,
            <<Lit("organization:"), Field(P("id"))>>)),
        TupleMapping(CAnd(CNeNil(P("metadata")),
                          CNeNil(P2("metadata", "tier"))),
          TupleDefinition(
            <<Lit("organization:"), Field(P("id"))>>,
            <<Lit("has_tier")>>,
            <<Lit("tier:"), Field(P2("metadata", "tier"))>>))>>)

(* A rule set that reconciles a member's role: the README's role template  *)
(* (object "role:<id>#organization:<id>") under the update action.         *)
RoleConfig ==
    MappingConfig(
      <<EventMapping("organization.member.role.assigned", "update")>>,
      <<TupleMapping(CNone,
          TupleDefinition(
            <<Lit("user:"), Field(P2("user", "user_id"))>>,
            <<Lit("is_role")>>,
            <<Lit("role:"), Field(P2("role", "id")),
              Lit("#organization:"), Field(P2("organization", "id"))>>))>>)

(* The error-handling test's rule sets (an action that does not parse, a   *)
(* condition that does not compile), each after a rule that renders, for   *)
(* all three actions; and a condition that is not a boolean.               *)
EveryoneRule ==
    TupleMapping(CNone,
      TupleDefinition(UserIdTemplate, <<Lit("member")>>, <<Lit("group:all")>>))

LifecycleEvents ==
    <<EventMapping("user.created", "create"),
      EventMapping("user.updated", "update"),
      EventMapping("user.deleted", "delete")>>

InvalidTemplateConfig ==
    MappingConfig(LifecycleEvents,
      <<EveryoneRule,
        TupleMapping(CEqTrue(P("blocked")),
          TupleDefinition(<<Lit("user:"), Malformed>>, <<Lit("test")>>,
                          <<Lit("object:test")>>))>>)

InvalidConditionConfig ==
    MappingConfig(LifecycleEvents,
      <<EveryoneRule,
        TupleMapping(CInvalid,
          TupleDefinition(<<Lit("user:test")>>, <<Lit("test")>>,
                          <<Lit("object:test")>>))>>)

(* Event types listed twice, with an action that is none of the three, and *)
(* with no action.                                                         *)
RoutingConfig ==
    MappingConfig(
      <<EventMapping("user.updated", "delete"),
        EventMapping("user.updated", "update"),
        EventMapping("user.created", "upsert"),
        EventMapping("user.created", "create"),
        EventMapping("user.deleted", ""),
        EventMapping("user.deleted", "delete")>>,
      <<EveryoneRule,
        TupleMapping(CPath(P("email_verified")),
          TupleDefinition(UserIdTemplate, <<Lit("test")>>,
                          <<Lit("object:test")>>))>>)

Configs ==
    {UserConfig, OrgConfig, RoleConfig, InvalidTemplateConfig,
     InvalidConditionConfig, RoutingConfig}

(* ---------------------------------------------------------------------- *)
(* Events                                                                  *)
(* ---------------------------------------------------------------------- *)
EventTypes ==
    {"user.created", "user.updated", "user.deleted",
     "organization.updated", "organization.deleted",
     "organization.member.role.assigned", "unknown.event.type"}

DataObjects ==
    { ("user_id" :> JStr("x")),
      ("user_id" :> JStr("x")) @@ ("email_verified" :> JBool(TRUE)),
      ("user_id" :> JStr("x")) @@ ("email_verified" :> JBool(TRUE))
          @@ ("blocked" :> JBool(TRUE)),
      ("user_id" :> JStr("x")) @@ ("email_verified" :> JBool(FALSE))
          @@ ("app_metadata" :> JMap("manager" :> JStr("y"))),
      ("user_id" :> JStr("x")) @@ ("email_verified" :> JBool(TRUE))
          @@ ("app_metadata" :> JStr("none")),
      ("id" :> JStr("x")) @@ ("metadata" :> JMap("tier" :> JStr("gold"))),
      ("user" :> JMap("user_id" :> JStr("x")))
          @@ ("role" :> JMap("id" :> JStr("admin")))
          @@ ("organization" :> JMap("id" :> JStr("o"))),
      EmptyMap }

Event(type, object) ==
    ("type" :> JStr(type)) @@ ("data" :> JMap("object" :> JMap(object)))

(* an event with no type, with a type that is a number, with no data *)
UntypedEvents ==
    { ("data" :> JMap("object" :> JMap("user_id" :> JStr("x")))),
      ("type" :> JNum)
          @@ ("data" :> JMap("object" :> JMap("user_id" :> JStr("x")))),
      ("type" :> JStr("user.updated")),
      ("type" :> JStr("user.deleted")) }

Events ==
    {Event(type, object) : type \in EventTypes, object \in DataObjects}
        \cup UntypedEvents

(* ---------------------------------------------------------------------- *)
(* The engine and the store                                                *)
(* ---------------------------------------------------------------------- *)
VARIABLES
    store,          \* the tuples the authorization store holds
    pc,             \* per caller: "idle", "read", "write", "done"
    event,          \* per caller: the event being processed
    config,         \* per caller: the rule set it is processed with
    handler,        \* per caller: the handler ProcessEvent dispatched to
    newTuples,      \* per caller: the result of evaluateMappings
    entityID,       \* per caller: the result of extractUserID
    existingTuples, \* per caller: the result of readExistingTuples
    body,           \* per caller: the ClientWriteRequest being sent: the bags
                    \* of its Writes and of its Deletes
    err,            \* per caller: the error returned ("" is nil)
    reads,          \* per caller: store Read calls made for the event
    writes,         \* per caller: the Write requests sent for the event
    processed,      \* events handed back to their callers so far
    call            \* a direct call of one function: arguments and results

engineVars ==
    <<store, pc, event, config, handler, newTuples, entityID, existingTuples,
      body, err, reads, writes, processed>>

vars == <<engineVars, call>>

(* events one behaviour processes *)
MaxEvents == 2

NoBody == [Writes |-> EmptyBag, Deletes |-> EmptyBag]

(* client.ClientWriteRequest{Writes: ..., Deletes: ...}: the store's Write  *)
(* does not read the order of the two lists.                               *)
ClientWriteRequest(writes_, deletes_) ==
    [Writes |-> SeqToBag(writes_), Deletes |-> SeqToBag(deletes_)]

NoEvent == EmptyMap

NoConfig == MappingConfig(<<>>, <<>>)

(* The action of the last EventMapping of the event's type: a loop with no *)
(* break                                                                   *)
RECURSIVE FindLastAction(_, _, _)
FindLastAction(events, eventType, i) ==
    IF i > Len(events) THEN ""
    ELSE LET later == FindLastAction(events, eventType, i + 1) IN
         IF later # "" \/ events[i].Type # eventType THEN later
         ELSE events[i].Action

(* The action of the first EventMapping of the event's type ("" if none) *)
RECURSIVE FindAction(_, _, _)
FindAction(events, eventType, i) ==
    IF i > Len(events) THEN ""
    ELSE IF events[i].Type = eventType THEN events[i].Action
    ELSE FindAction(events, eventType, i + 1)

(* What a handler has decided when it reaches its first store call or      *)
(* returns: where it stands, its locals, and the error it returns.         *)
Step(next, h, tuples, id, request, error) ==
    [pc |-> next, handler |-> h, newTuples |-> tuples, entityID |-> id,
     body |-> request, err |-> error]

(* A create handler that would send its Write also when it has no tuples *)
processCreateEventAlwaysWrites(ev, cfg) ==
    LET r == evaluateMappings(ev, cfg.Mappings) IN
    IF r.err # ""
    THEN Step("done", "create", <<>>, "", NoBody, "failed to evaluate mappings")
    ELSE Step("write", "create", r.results, "",
              ClientWriteRequest(r.results, <<>>), "")

(* A delete handler that would always take the fallback path *)
processDeleteEventAlwaysReads(ev, cfg) ==
    LET r == evaluateMappings(ev, cfg.Mappings)
        u == extractUserID(ev)
    IN IF r.err # ""
       THEN Step("done", "delete", <<>>, "", NoBody,
                 "failed to evaluate mappings")
       ELSE IF u.err # ""
            THEN Step("done", "delete", r.results, "", NoBody,
                      "failed to extract user ID")
       ELSE Step("read", "delete", r.results, u.id, NoBody, "")

(* A create handler that would reconcile with the store as an update does *)
processCreateEventReadsFirst(ev, cfg) ==
    LET r == evaluateMappings(ev, cfg.Mappings)
        u == extractUserID(ev)
    IN IF r.err # ""
       THEN Step("done", "create", <<>>, "", NoBody,
                 "failed to evaluate mappings")
       ELSE IF u.err # ""
            THEN Step("done", "create", r.results, "", NoBody,
                      "failed to extract user ID")
       ELSE Step("read", "create", r.results, u.id, NoBody, "")

(* processCreateEvent up to the Write *)
processCreateEvent(ev, cfg) ==
    LET r == evaluateMappings(ev, cfg.Mappings) IN
    IF r.err # ""
    THEN Step("done", "create", <<>>, "", NoBody, "failed to evaluate mappings")
    ELSE IF Len(r.results) = 0
         THEN Step("done", "create", r.results, "", NoBody, "")
    ELSE Step("write", "create", r.results, "",
              ClientWriteRequest(r.results, <<>>), "")

(* processUpdateEvent up to readExistingTuples *)
processUpdateEvent(ev, cfg) ==
    LET r == evaluateMappings(ev, cfg.Mappings)
        u == extractUserID(ev)
    IN IF r.err # ""
       THEN Step("done", "update", <<>>, "", NoBody,
                 "failed to evaluate mappings")
       ELSE IF u.err # ""
            THEN Step("done", "update", r.results, "", NoBody,
                      "failed to extract user ID")
       ELSE Step("read", "update", r.results, u.id, NoBody, "")

(* processDeleteEvent up to the Write of the rules' tuples, or up to       *)
(* readExistingTuples when no rule gave a tuple                            *)
processDeleteEvent(ev, cfg) ==
    LET r == evaluateMappings(ev, cfg.Mappings)
        u == extractUserID(ev)
    IN IF r.err # ""
       THEN Step("done", "delete", <<>>, "", NoBody,
                 "failed to evaluate mappings")
       ELSE IF Len(r.results) > 0
            THEN Step("write", "delete", r.results, "",
                      ClientWriteRequest(<<>>, r.results), "")
       ELSE IF u.err # ""
            THEN Step("done", "delete", r.results, "", NoBody,
                      "failed to extract user ID")
       ELSE Step("read", "delete", r.results, u.id, NoBody, "")

(* A dispatch that would run the create handler for every action *)
DispatchAlwaysCreates(ev, cfg) ==
    IF MapIndex(JMap(ev), "type").kind # "string"
    THEN Step("done", "", <<>>, "", NoBody,
              "event type not found or not a string")
    ELSE processCreateEvent(ev, cfg)

(* ProcessEvent: the dispatch *)
Dispatch(ev, cfg) ==
    IF MapIndex(JMap(ev), "type").kind # "string"
    THEN Step("done", "", <<>>, "", NoBody,
              "event type not found or not a string")
    ELSE LET action == FindAction(cfg.Events, ev["type"].s, 1) IN
         IF action = ""
         THEN Step("done", "", <<>>, "", NoBody,
                   "no action found for event type")
         ELSE IF action = "create" THEN processCreateEvent(ev, cfg)
         ELSE IF action = "update" THEN processUpdateEvent(ev, cfg)
         ELSE IF action = "delete" THEN processDeleteEvent(ev, cfg)
         ELSE Step("done", "", <<>>, "", NoBody, "unknown action")

(* A handler that would send its Write also when there is nothing to send *)
AfterReadAlwaysWrites(h, existing, desired, changes) ==
    IF h = "update"
    THEN [pc |-> "write", body |-> ClientWriteRequest(changes[1], changes[2])]
    ELSE [pc |-> "write", body |-> ClientWriteRequest(<<>>, existing)]

(* After readExistingTuples returned `existing`: the rest of the handler   *)
(* up to its Write or its return, for one result of calculateTupleChanges. *)
AfterRead(h, existing, desired, changes) ==
    IF h = "update"
    THEN IF Len(changes[2]) > 0 \/ Len(changes[1]) > 0
         THEN [pc |-> "write",
               body |-> ClientWriteRequest(changes[1], changes[2])]
         ELSE [pc |-> "done", body |-> NoBody]
    ELSE IF Len(existing) = 0
         THEN [pc |-> "done", body |-> NoBody]
         ELSE [pc |-> "write", body |-> ClientWriteRequest(<<>>, existing)]

(* A caller hands an event and a rule set to ProcessEvent, which runs to   *)
(* its first store call or to its return.                                  *)
Enter(w, ev, cfg, d) ==
    /\ event' = [event EXCEPT ![w] = ev]
    /\ config' = [config EXCEPT ![w] = cfg]
    /\ pc' = [pc EXCEPT ![w] = d.pc]
    /\ handler' = [handler EXCEPT ![w] = d.handler]
    /\ newTuples' = [newTuples EXCEPT ![w] = d.newTuples]
    /\ entityID' = [entityID EXCEPT ![w] = d.entityID]
    /\ body' = [body EXCEPT ![w] = d.body]
    /\ err' = [err EXCEPT ![w] = d.err]
    /\ existingTuples' = [existingTuples EXCEPT ![w] = <<>>]
    /\ reads' = [reads EXCEPT ![w] = 0]
    /\ writes' = [writes EXCEPT ![w] = <<>>]
    /\ UNCHANGED <<store, processed>>

Call(w, events, configs) ==
    /\ pc[w] = "idle"
    /\ processed < MaxEvents
    /\ \E ev \in events, cfg \in configs : Enter(w, ev, cfg, Dispatch(ev, cfg))
    /\ UNCHANGED call

ProcessEvent(w) == Call(w, Events, Configs)

(* The store answers the Read of readExistingTuples; the handler filters   *)
(* the tuples, and runs on to its Write or its return.                     *)
StoreRead(w) ==
    /\ pc[w] = "read"
    /\ reads' = [reads EXCEPT ![w] = @ + 1]
    /\ \E existing \in readExistingTuples(store, entityID[w]) :
       \E changes \in calculateTupleChanges(existing, newTuples[w]) :
         LET a == AfterRead(handler[w], existing, newTuples[w], changes) IN
         /\ existingTuples' = [existingTuples EXCEPT ![w] = existing]
         /\ pc' = [pc EXCEPT ![w] = a.pc]
         /\ body' = [body EXCEPT ![w] = a.body]
    /\ UNCHANGED <<store, event, config, handler, newTuples, entityID, err,
                   writes, processed, call>>

(* The store fails the Read: the handler returns the error. *)
StoreReadFails(w) ==
    /\ pc[w] = "read"
    /\ reads' = [reads EXCEPT ![w] = @ + 1]
    /\ pc' = [pc EXCEPT ![w] = "done"]
    /\ err' = [err EXCEPT ![w] = "failed to read existing tuples"]
    /\ UNCHANGED <<store, event, config, handler, newTuples, entityID,
                   existingTuples, body, writes, processed, call>>

(* The store applies the Write, additions and deletions together. *)
StoreWrite(w) ==
    /\ pc[w] = "write"
    /\ writes' = [writes EXCEPT ![w] = Append(@, body[w])]
    /\ store' = (store \ BagToSet(body[w].Deletes))
                    \cup BagToSet(body[w].Writes)
    /\ pc' = [pc EXCEPT ![w] = "done"]
    /\ UNCHANGED <<event, config, handler, newTuples, entityID,
                   existingTuples, body, err, reads, processed, call>>

(* The store rejects the Write and changes nothing: the handler returns    *)
(* the error.                                                              *)
StoreWriteFails(w) ==
    /\ pc[w] = "write"
    /\ writes' = [writes EXCEPT ![w] = Append(@, body[w])]
    /\ pc' = [pc EXCEPT ![w] = "done"]
    /\ err' = [err EXCEPT ![w] = "failed to write tuples"]
    /\ UNCHANGED <<store, event, config, handler, newTuples, entityID,
                   existingTuples, body, reads, processed, call>>

(* The caller takes the result; the call's event, rule set and locals are  *)
(* gone, and the caller is ready for its next event.                       *)
Return(w) ==
    /\ pc[w] = "done"
    /\ pc' = [pc EXCEPT ![w] = "idle"]
    /\ event' = [event EXCEPT ![w] = NoEvent]
    /\ config' = [config EXCEPT ![w] = NoConfig]
    /\ handler' = [handler EXCEPT ![w] = ""]
    /\ newTuples' = [newTuples EXCEPT ![w] = <<>>]
    /\ entityID' = [entityID EXCEPT ![w] = ""]
    /\ existingTuples' = [existingTuples EXCEPT ![w] = <<>>]
    /\ body' = [body EXCEPT ![w] = NoBody]
    /\ err' = [err EXCEPT ![w] = ""]
    /\ reads' = [reads EXCEPT ![w] = 0]
    /\ writes' = [writes EXCEPT ![w] = <<>>]
    /\ processed' = processed + 1
    /\ UNCHANGED <<store, call>>

(* ---------------------------------------------------------------------- *)
(* The store before the first event                                        *)
(* ---------------------------------------------------------------------- *)
InitTuples ==
    { ProcessedTuple("user:x", "email_verified", "user:x"),
      ProcessedTuple("user:x", "blocked", "user:x"),
      ProcessedTuple("user:y", "manager", "user:x"),
      ProcessedTuple("user:x", "member", "organization:o"),
      ProcessedTuple("user:x", "is_role#role:admin", "organization:o") }

NoCall == [fn |-> ""]

EngineReady(W, tuples) ==
    /\ store \in SUBSET tuples
    /\ pc = [w \in W |-> "idle"]
    /\ event = [w \in W |-> NoEvent]
    /\ config = [w \in W |-> NoConfig]
    /\ handler = [w \in W |-> ""]
    /\ newTuples = [w \in W |-> <<>>]
    /\ entityID = [w \in W |-> ""]
    /\ existingTuples = [w \in W |-> <<>>]
    /\ body = [w \in W |-> NoBody]
    /\ err = [w \in W |-> ""]
    /\ reads = [w \in W |-> 0]
    /\ writes = [w \in W |-> <<>>]
    /\ processed = 0

InitCallers(W, tuples) == call = NoCall /\ EngineReady(W, tuples)

(* One caller: events are processed one after the other. *)
Init == InitCallers({1}, InitTuples)

Next ==
    \/ \E w \in DOMAIN pc : ProcessEvent(w)
    \/ \E w \in DOMAIN pc : StoreRead(w)
    \/ \E w \in DOMAIN pc : StoreReadFails(w)
    \/ \E w \in DOMAIN pc : StoreWrite(w)
    \/ \E w \in DOMAIN pc : StoreWriteFails(w)
    \/ \E w \in DOMAIN pc : Return(w)

Spec == Init /\ [][Next]_vars

(* ---------------------------------------------------------------------- *)
(* Two callers (two webhook requests) update the same user concurrently:   *)
(* each one's Read and Write are separate steps of the store.              *)
(* ---------------------------------------------------------------------- *)
ConcurrentEvents ==
    {Event("user.updated", object) :
        object \in {o \in DataObjects :
                      MapIndex(JMap(o), "user_id") = JStr("x")}}

InitConc ==
    InitCallers({1, 2},
                {t \in InitTuples : t.User = "user:x" /\ t.Object = "user:x"})

NextConc ==
    \/ \E w \in DOMAIN pc : Call(w, ConcurrentEvents, {UserConfig})
    \/ \E w \in DOMAIN pc : StoreRead(w)
    \/ \E w \in DOMAIN pc : StoreReadFails(w)
    \/ \E w \in DOMAIN pc : StoreWrite(w)
    \/ \E w \in DOMAIN pc : StoreWriteFails(w)
    \/ \E w \in DOMAIN pc : Return(w)

SpecConc == InitConc /\ [][NextConc]_vars

(* ---------------------------------------------------------------------- *)
(* Direct calls of calculateTupleChanges and of evaluateMappings           *)
(* ---------------------------------------------------------------------- *)
(* longest argument list of a direct call *)
MaxLen == 2

SeqsUpTo(S, n) == UNION {[1..k -> S] : k \in 0..n}

EngineUnused ==
    /\ store = {}
    /\ pc = <<>> /\ event = <<>> /\ config = <<>> /\ handler = <<>>
    /\ newTuples = <<>> /\ entityID = <<>> /\ existingTuples = <<>>
    /\ body = <<>> /\ err = <<>> /\ reads = <<>> /\ writes = <<>>
    /\ processed = 0

(* The unit test's tuples, and the README's role tuple with a tuple that   *)
(* differs from it only in where the '#' of its fields stand.              *)
DiffTuples ==
    { ProcessedTuple("user:123", "email_verified", "user:123"),
      ProcessedTuple("user:123", "blocked", "user:123"),
      ProcessedTuple("user:123", "phone_verified", "user:123"),
      ProcessedTuple("user:x", "is_role", "role:admin#organization:o"),
      ProcessedTuple("user:x", "is_role#role:admin", "organization:o") }

InitDiff ==
    /\ EngineUnused
    /\ call \in {[fn |-> "calculateTupleChanges", returned |-> FALSE,
                   existing |-> e, new |-> n,
                   tuplesToAdd |-> <<>>, tuplesToDelete |-> <<>>]
                    : e \in SeqsUpTo(DiffTuples, MaxLen),
                      n \in SeqsUpTo(DiffTuples, MaxLen)}

CalculateTupleChanges ==
    /\ call.fn = "calculateTupleChanges"
    /\ ~call.returned
    /\ \E changes \in calculateTupleChanges(call.existing, call.new) :
         call' = [call EXCEPT !.returned = TRUE,
                              !.tuplesToAdd = changes[1],
                              !.tuplesToDelete = changes[2]]
    /\ UNCHANGED engineVars

SpecDiff == InitDiff /\ [][CalculateTupleChanges]_vars

(* calculateTupleChanges called on two lists and then on the same lists    *)
(* the other way round                                                     *)
InitDiffBothWays ==
    /\ EngineUnused
    /\ call \in {[fn |-> "calculateTupleChanges both ways", calls |-> 0,
                   a |-> a, b |-> b,
                   forward |-> <<<<>>, <<>>>>, backward |-> <<<<>>, <<>>>>]
                    : a \in SeqsUpTo(DiffTuples, MaxLen),
                      b \in SeqsUpTo(DiffTuples, MaxLen)}

CalculateForward ==
    /\ call.fn = "calculateTupleChanges both ways"
    /\ call.calls = 0
    /\ \E changes \in calculateTupleChanges(call.a, call.b) :
         call' = [call EXCEPT !.calls = 1, !.forward = changes]
    /\ UNCHANGED engineVars

CalculateBackward ==
    /\ call.fn = "calculateTupleChanges both ways"
    /\ call.calls = 1
    /\ \E changes \in calculateTupleChanges(call.b, call.a) :
         call' = [call EXCEPT !.calls = 2, !.backward = changes]
    /\ UNCHANGED engineVars

NextDiffBothWays == CalculateForward \/ CalculateBackward

SpecDiffBothWays == InitDiffBothWays /\ [][NextDiffBothWays]_vars

(* Direct calls of extractUserID: objects with every choice of what the    *)
(* three ID fields hold, a string, another JSON value, or nothing at all.  *)
Absent == [kind |-> "absent", s |-> "", b |-> FALSE, m |-> EmptyMap]

FieldIf(key, value) == IF value = Absent THEN EmptyMap ELSE key :> value

ExtractObjects ==
    {FieldIf("user_id", u) @@ FieldIf("id", i) @@ FieldIf("user", n)
        : u \in {Absent, JStr("x"), JStr(""), JNum, JNull},
          i \in {Absent, JStr("o"), JNum},
          n \in {Absent, JMap("user_id" :> JStr("m")),
                 JMap("user_id" :> JNum), JMap(EmptyMap), JStr("m")}}

ExtractEvents ==
    {Event("organization.member.added", object) : object \in ExtractObjects}
        \cup { ("type" :> JStr("user.updated")),
               ("type" :> JStr("user.updated")) @@ ("data" :> JStr("x")),
               ("type" :> JStr("user.updated")) @@ ("data" :> JMap(EmptyMap)),
               ("type" :> JStr("user.updated"))
                   @@ ("data" :> JMap("object" :> JNull)) }

InitExtract ==
    /\ EngineUnused
    /\ call \in {[fn |-> "extractUserID", returned |-> FALSE, event |-> ev,
                   id |-> "", err |-> ""] : ev \in ExtractEvents}

ExtractUserID ==
    /\ call.fn = "extractUserID"
    /\ ~call.returned
    /\ LET r == extractUserID(call.event) IN
       call' = [call EXCEPT !.returned = TRUE, !.id = r.id, !.err = r.err]
    /\ UNCHANGED engineVars

SpecExtract == InitExtract /\ [][ExtractUserID]_vars

(* the rules of the rule sets above *)
Rules == UNION {Range(cfg.Mappings) : cfg \in Configs}

EvalEvents ==
    {Event("user.updated", object) : object \in DataObjects}
        \cup {("type" :> JStr("user.updated"))}

InitEval ==
    /\ EngineUnused
    /\ call \in {[fn |-> "evaluateMappings", returned |-> FALSE,
                   event |-> ev, mappings |-> ms,
                   results |-> <<>>, err |-> ""]
                    : ev \in EvalEvents, ms \in SeqsUpTo(Rules, MaxLen)}

EvaluateMappings ==
    /\ call.fn = "evaluateMappings"
    /\ ~call.returned
    /\ LET r == evaluateMappings(call.event, call.mappings) IN
       call' = [call EXCEPT !.returned = TRUE,
                            !.results = r.results, !.err = r.err]
    /\ UNCHANGED engineVars

SpecEval == InitEval /\ [][EvaluateMappings]_vars

(* ---------------------------------------------------------------------- *)
(* MultiConfigProcessor.ProcessEvent: one event against a list of rule     *)
(* sets, through the engine's ProcessEvent                                 *)
(* ---------------------------------------------------------------------- *)
(* longest list of rule sets of a processor *)
MaxConfigs == 3

(* does the rule set list the event type *)
HandlesType(cfg, eventType) ==
    \E i \in 1..Len(cfg.Events) : cfg.Events[i].Type = eventType

(* A selection that would take a rule set once for every EventMapping of   *)
(* the type: the inner loop without its break                              *)
RECURSIVE applicableConfigsPerMapping(_, _)
applicableConfigsPerMapping(configs, eventType) ==
    IF configs = <<>> THEN <<>>
    ELSE LET cfg == Head(configs)
             hits == SelectSeq(cfg.Events, LAMBDA m : m.Type = eventType)
         IN [i \in 1..Len(hits) |-> cfg]
              \o applicableConfigsPerMapping(Tail(configs), eventType)

(* applicableConfigs: the rule sets that list the type, in list order *)
applicableConfigs(configs, eventType) ==
    SelectSeq(configs, LAMBDA cfg : HandlesType(cfg, eventType))

(* A loop that would go on to the next rule set after an error *)
AfterEngineCallIgnoringErrors(error, done, applicable) ==
    IF done < applicable THEN "next" ELSE "return"

(* the loop over applicableConfigs after an engine call has returned *)
AfterEngineCall(error, done, applicable) ==
    IF error # "" THEN "fail"
    ELSE IF done < applicable THEN "next"
    ELSE "return"

McpConfigs == {UserConfig, OrgConfig, RoutingConfig, InvalidTemplateConfig}

McpEvents ==
    {Event(type, object) :
        type \in {"user.created", "user.updated", "unknown.event.type"},
        object \in {("user_id" :> JStr("x")) @@ ("email_verified" :> JBool(TRUE)),
                    ("user_id" :> JStr("x")) @@ ("email_verified" :> JBool(TRUE))
                        @@ ("blocked" :> JBool(TRUE))}}
        \cup {("data" :> JMap("object" :> JMap("user_id" :> JStr("x"))))}

McpName == "MultiConfigProcessor.ProcessEvent"

InitMulti ==
    /\ EngineReady({1}, {ProcessedTuple("user:x", "blocked", "user:x")})
    /\ call \in {[fn |-> McpName, stage |-> "called", event |-> ev,
                   configs |-> cfgs, before |-> store,
                   applicableConfigs |-> <<>>, invoked |-> <<>>, err |-> ""]
                    : ev \in McpEvents, cfgs \in SeqsUpTo(McpConfigs, MaxConfigs)}

(* ProcessEvent up to the first store call of the first engine call, or to *)
(* its return when the event has no type or no rule set lists it           *)
McpProcessEvent ==
    /\ call.fn = McpName /\ call.stage = "called"
    /\ IF MapIndex(JMap(call.event), "type").kind # "string"
       THEN /\ call' = [call EXCEPT
                          !.stage = "returned",
                          !.err = "event type not found or not a string"]
            /\ UNCHANGED engineVars
       ELSE LET applicable ==
                   applicableConfigs(call.configs, call.event["type"].s)
            IN IF Len(applicable) = 0
               THEN /\ call' = [call EXCEPT
                                  !.stage = "returned",
                                  !.applicableConfigs = applicable,
                                  !.err = "no configuration found for event type"]
                    /\ UNCHANGED engineVars
               ELSE /\ call' = [call EXCEPT
                                  !.stage = "loop",
                                  !.applicableConfigs = applicable,
                                  !.invoked = <<applicable[1]>>]
                    /\ Enter(1, call.event, applicable[1],
                             Dispatch(call.event, applicable[1]))

McpAfter(outcome) ==
    /\ call.fn = McpName /\ call.stage = "loop"
    /\ pc[1] = "done"
    /\ AfterEngineCall(err[1], Len(call.invoked), Len(call.applicableConfigs))
          = outcome

(* the engine returned nil and a rule set is left: the next engine call *)
McpNextConfig ==
    /\ McpAfter("next")
    /\ LET cfg == call.applicableConfigs[Len(call.invoked) + 1] IN
       /\ call' = [call EXCEPT !.invoked = Append(@, cfg)]
       /\ Enter(1, call.event, cfg, Dispatch(call.event, cfg))

(* the engine returned an error: ProcessEvent returns it *)
McpFails ==
    /\ McpAfter("fail")
    /\ call' = [call EXCEPT !.stage = "returned",
                            !.err = "failed to process event with config"]
    /\ UNCHANGED engineVars

(* the engine returned nil for the last rule set: ProcessEvent returns nil *)
McpReturns ==
    /\ McpAfter("return")
    /\ call' = [call EXCEPT !.stage = "returned"]
    /\ UNCHANGED engineVars

NextMulti ==
    \/ McpProcessEvent
    \/ McpNextConfig
    \/ McpFails
    \/ McpReturns
    \/ StoreRead(1)
    \/ StoreReadFails(1)
    \/ StoreWrite(1)
    \/ StoreWriteFails(1)

SpecMulti == InitMulti /\ [][NextMulti]_vars

(* ---------------------------------------------------------------------- *)
(* ProcessEventWithDetails, on an engine with a store client and on the    *)
(* dry-run engine of NewMockMappingEngine (no client)                      *)
(* ---------------------------------------------------------------------- *)
ProcessEventResult(added, deleted, action, eventType) ==
    [TuplesAdded |-> added, TuplesDeleted |-> deleted,
     Action |-> action, EventType |-> eventType]

NoResult == ProcessEventResult(<<>>, <<>>, "", "")

(* An engine that would call its handlers in dry-run mode too *)
CallsStoreAlways(isDryRun) == TRUE

(* if !me.isDryRun: the handlers and the store client are used *)
CallsStore(isDryRun) == ~isDryRun

(* What ProcessEventWithDetails has decided when it reaches its first      *)
(* store call or returns: next is "returned", "read" (its own              *)
(* readExistingTuples) or "handler" (it has entered the handler `step`).   *)
Details(next, result, error, step) ==
    [next |-> next, result |-> result, err |-> error, step |-> step]

NoStep == Step("idle", "", <<>>, "", NoBody, "")

DetailsFails(error) == Details("returned", NoResult, error, NoStep)

ProcessEventWithDetails(ev, cfg, isDryRun) ==
    IF MapIndex(JMap(ev), "type").kind # "string"
    THEN DetailsFails("event type not found or not a string")
    ELSE
    LET eventType == ev["type"].s
        action == FindAction(cfg.Events, eventType, 1)
        r == evaluateMappings(ev, cfg.Mappings)
        u == extractUserID(ev)
    IN IF action = "" THEN DetailsFails("no action found for event type")
       ELSE IF action \notin {"create", "update", "delete"}
            THEN DetailsFails("unknown action")
       ELSE IF r.err # "" THEN DetailsFails("failed to evaluate mappings")
       ELSE IF action = "create"
            THEN LET result ==
                       ProcessEventResult(r.results, <<>>, action, eventType)
                 IN IF CallsStore(isDryRun)
                    THEN Details("handler", result, "",
                                 processCreateEvent(ev, cfg))
                    ELSE Details("returned", result, "", NoStep)
       ELSE IF action = "update"
            THEN IF ~CallsStore(isDryRun)
                 THEN Details("returned",
                              ProcessEventResult(r.results, <<>>, action,
                                                 eventType), "", NoStep)
                 ELSE IF u.err # ""
                      THEN DetailsFails("failed to extract entity ID")
                 ELSE Details("read",
                              ProcessEventResult(<<>>, <<>>, action, eventType),
                              "", NoStep)
       ELSE LET result ==
                  ProcessEventResult(<<>>, r.results, action, eventType)
            IN IF CallsStore(isDryRun)
               THEN Details("handler", result, "", processDeleteEvent(ev, cfg))
               ELSE Details("returned", result, "", NoStep)

DetailsName == "ProcessEventWithDetails"

DetailsConfigs == {UserConfig, RoutingConfig, InvalidTemplateConfig}

DetailsEvents ==
    {Event(type, object) :
        type \in {"user.created", "user.updated", "user.deleted"},
        object \in {("user_id" :> JStr("x")),
                    ("user_id" :> JStr("x")) @@ ("email_verified" :> JBool(TRUE)),
                    ("user_id" :> JStr("x")) @@ ("email_verified" :> JBool(TRUE))
                        @@ ("blocked" :> JBool(TRUE)),
                    EmptyMap}}
        \cup {Event("unknown.event.type", ("user_id" :> JStr("x"))),
              ("data" :> JMap("object" :> JMap("user_id" :> JStr("x"))))}

DetailsTuples ==
    {t \in InitTuples : t.Object = "user:x"}

InitDetails ==
    /\ EngineReady({1}, DetailsTuples)
    /\ call \in {[fn |-> DetailsName, stage |-> "called", isDryRun |-> dry,
                   event |-> ev, config |-> cfg, before |-> store,
                   result |-> NoResult, err |-> "", reads |-> 0]
                    : dry \in BOOLEAN, ev \in DetailsEvents,
                      cfg \in DetailsConfigs}

(* ProcessEventWithDetails up to its first store call or its return *)
DetailsCall ==
    /\ call.fn = DetailsName /\ call.stage = "called"
    /\ LET d == ProcessEventWithDetails(call.event, call.config,
                                        call.isDryRun)
       IN /\ call' = [call EXCEPT !.stage = d.next, !.result = d.result,
                                  !.err = d.err]
          /\ IF d.next = "handler"
             THEN Enter(1, call.event, call.config, d.step)
             ELSE UNCHANGED engineVars

(* The store answers the Read of the update branch: the result takes the   *)
(* diff, and processUpdateEvent is entered.                                *)
DetailsRead ==
    /\ call.fn = DetailsName /\ call.stage = "read"
    /\ \E existing \in readExistingTuples(store,
                                         extractUserID(call.event).id) :
       \E changes \in calculateTupleChanges(
                         existing,
                         evaluateMappings(call.event,
                                          call.config.Mappings).results) :
          call' = [call EXCEPT !.stage = "handler", !.reads = @ + 1,
                               !.result.TuplesAdded = changes[1],
                               !.result.TuplesDeleted = changes[2]]
    /\ Enter(1, call.event, call.config,
             processUpdateEvent(call.event, call.config))

(* The store fails that Read *)
DetailsReadFails ==
    /\ call.fn = DetailsName /\ call.stage = "read"
    /\ call' = [call EXCEPT !.stage = "returned", !.reads = @ + 1,
                            !.result = NoResult,
                            !.err = "failed to read existing tuples"]
    /\ UNCHANGED engineVars

(* The handler has returned: its error, or the result *)
DetailsReturn ==
    /\ call.fn = DetailsName /\ call.stage = "handler"
    /\ pc[1] = "done"
    /\ call' = [call EXCEPT !.stage = "returned", !.err = err[1],
                            !.result = IF err[1] # "" THEN NoResult ELSE @]
    /\ UNCHANGED engineVars

NextDetails ==
    \/ DetailsCall
    \/ DetailsRead
    \/ DetailsReadFails
    \/ DetailsReturn
    \/ StoreRead(1)
    \/ StoreReadFails(1)
    \/ StoreWrite(1)
    \/ StoreWriteFails(1)

SpecDetails == InitDetails /\ [][NextDetails]_vars

(* ---------------------------------------------------------------------- *)
(* The webhook service: handleAuth0Webhook                                 *)
(* ---------------------------------------------------------------------- *)
(* strings.HasPrefix, strings.Contains, strings.TrimPrefix *)
HasPrefix(str, prefix) ==
    Len(str) >= Len(prefix) /\ SubSeq(str, 1, Len(prefix)) = prefix

Contains(str, substr) ==
    \E i \in 1..(Len(str) - Len(substr) + 1) :
        SubSeq(str, i, i + Len(substr) - 1) = substr

TrimPrefix(str, prefix) ==
    IF HasPrefix(str, prefix) THEN SubSeq(str, Len(prefix) + 1, Len(str))
    ELSE str

(* organization-member-mappings.yaml: the event types of the CLI's table,  *)
(* with a membership rule                                                  *)
MemberConfig ==
    MappingConfig(
      <<EventMapping("organization.member.added", "create"),
        EventMapping("organization.member.removed", "delete"),
        EventMapping("organization.member.deleted", "delete")>>,
      <<TupleMapping(CNone,
          TupleDefinition(
            <<Lit("user:"), Field(P2("user", "user_id"))>>,
            <<Lit("member")>>,
            <<Lit("organization:"), Field(P2("organization", "id"))>>))>>)

(* the four rule sets a service has loaded *)
WebhookService ==
    [userConfig |-> UserConfig, orgConfig |-> OrgConfig,
     orgMemberConfig |-> MemberConfig, orgRoleConfig |-> RoleConfig]

(* processEvent: the rule set chosen by the event type, none for a type    *)
(* that is ignored                                                         *)
mappingConfig(s, eventType) ==
    IF HasPrefix(eventType, "user.") THEN <<s.userConfig>>
    ELSE IF HasPrefix(eventType, "organization.")
              /\ ~Contains(eventType, "member")
         THEN <<s.orgConfig>>
    ELSE IF Contains(eventType, "organization.member.role")
         THEN <<s.orgRoleConfig>>
    ELSE IF Contains(eventType, "organization.member")
         THEN <<s.orgMemberConfig>>
    ELSE <<>>

(* A processEvent that would ignore an event with no type *)
processEventIgnoringUntyped(s, ev) ==
    IF MapIndex(JMap(ev), "type").kind # "string"
    THEN [err |-> "", mappingConfig |-> <<>>]
    ELSE [err |-> "",
          mappingConfig |-> mappingConfig(s, ev["type"].s)]

(* processEvent up to the call of the engine: the error of an event with   *)
(* no type, or the rule set the engine is called with (none: ignored)      *)
processEvent(s, ev) ==
    IF MapIndex(JMap(ev), "type").kind # "string"
    THEN [err |-> "event type not found or not a string",
          mappingConfig |-> <<>>]
    ELSE [err |-> "",
          mappingConfig |-> mappingConfig(s, ev["type"].s)]

(* the service's Auth0 settings *)
Auth0Config(secret, verify) ==
    [WebhookSecret |-> secret, VerifySignature |-> verify]

(* the condition under which handleAuth0Webhook verifies the signature *)
ChecksSignature(cfg) == cfg.VerifySignature /\ cfg.WebhookSecret # ""

(* hex of the HMAC-SHA256 of the body under the webhook secret *)
ExpectedSignature == "5f2a"

(* verifyWebhookSignature, on the X-Hub-Signature-256 header *)
verifyWebhookSignature(signature) ==
    /\ signature # ""
    /\ TrimPrefix(signature, "sha256=") = ExpectedSignature

Response(code, text) == [code |-> code, body |-> text]

NoResponse == Response(0, "")

WebhookName == "handleAuth0Webhook"

WebhookEventTypes ==
    {"user.updated", "user.login", "organization.updated",
     "organization.member.added", "organization.member.role.assigned",
     "organization.member.role.changed", "unknown.event.type"}

WebhookObjects ==
    { ("user_id" :> JStr("x")) @@ ("email_verified" :> JBool(TRUE)),
      ("id" :> JStr("x")) @@ ("metadata" :> JMap("tier" :> JStr("gold"))),
      ("user" :> JMap("user_id" :> JStr("x")))
          @@ ("role" :> JMap("id" :> JStr("admin")))
          @@ ("organization" :> JMap("id" :> JStr("o"))) }

WebhookEvents ==
    {Event(type, object) : type \in WebhookEventTypes,
                           object \in WebhookObjects}
        \cup {("data" :> JMap("object" :> JMap("user_id" :> JStr("x"))))}

(* a request: whether its body can be read and parsed, the event it        *)
(* carries, and its signature header                                       *)
WebhookRequests ==
    [body : {"json"}, event : WebhookEvents,
     signature : {"sha256=5f2a", "5f2a"}]
      \cup [body : {"unreadable", "not json"}, event : {NoEvent},
             signature : {"sha256=5f2a"}]
      \cup [body : {"json"},
             event : {Event("user.updated", ("user_id" :> JStr("x")))},
             signature : {"", "sha256=0000"}]

InitWebhook ==
    /\ EngineReady({1}, {ProcessedTuple("user:x", "blocked", "user:x")})
    /\ call \in {[fn |-> WebhookName, stage |-> "received", request |-> r,
                   cfg |-> c, before |-> store, response |-> NoResponse]
                    : r \in WebhookRequests,
                      c \in {Auth0Config(secret, verify) :
                                secret \in {"", "secret"},
                                verify \in BOOLEAN}}

WebhookResponds(response) ==
    /\ call' = [call EXCEPT !.stage = "responded", !.response = response]
    /\ UNCHANGED engineVars

(* handleAuth0Webhook up to the engine's first store call, or to its       *)
(* response                                                                *)
HandleAuth0Webhook ==
    /\ call.fn = WebhookName /\ call.stage = "received"
    /\ LET r == call.request IN
       IF r.body = "unreadable"
       THEN WebhookResponds(Response(400, "Failed to read request body"))
       ELSE IF /\ ChecksSignature(call.cfg)
               /\ ~verifyWebhookSignature(r.signature)
            THEN WebhookResponds(Response(401, "Invalid signature"))
       ELSE IF r.body = "not json"
            THEN WebhookResponds(Response(400, "Invalid JSON"))
       ELSE LET p == processEvent(WebhookService, r.event)
                chosen == p.mappingConfig
            IN IF p.err # ""
               THEN WebhookResponds(Response(500, "Failed to process event"))
               ELSE IF chosen = <<>>
               THEN WebhookResponds(Response(200, "processed"))
               ELSE /\ call' = [call EXCEPT !.stage = "engine"]
                    /\ Enter(1, r.event, chosen[1],
                             Dispatch(r.event, chosen[1]))

(* the engine has returned: 500 for an error, 200 otherwise *)
WebhookEngineReturns ==
    /\ call.fn = WebhookName /\ call.stage = "engine"
    /\ pc[1] = "done"
    /\ WebhookResponds(IF err[1] # ""
                       THEN Response(500, "Failed to process event")
                       ELSE Response(200, "processed"))

NextWebhook ==
    \/ HandleAuth0Webhook
    \/ WebhookEngineReturns
    \/ StoreRead(1)
    \/ StoreReadFails(1)
    \/ StoreWrite(1)
    \/ StoreWriteFails(1)

SpecWebhook == InitWebhook /\ [][NextWebhook]_vars

(* ---------------------------------------------------------------------- *)
(* Properties of the engine                                                *)
(* ---------------------------------------------------------------------- *)
Callers == DOMAIN pc

Succeeded(w, h) == pc[w] = "done" /\ handler[w] = h /\ err[w] = ""

Scope(tuples, id) == {t \in tuples : InScope(t, id)}

(* C1: after an update event has been processed successfully (one caller,  *)
(* so no concurrent writer), the store holds every desired tuple and no    *)
(* tuple of the entity's scope that is not desired.                        *)
C1_UpdateReconciles ==
    \A w \in Callers :
        Succeeded(w, "update") =>
            /\ Range(newTuples[w]) \subseteq store
            /\ Scope(store, entityID[w]) \subseteq Range(newTuples[w])

(* ---------------------------------------------------------------------- *)
(* Properties of calculateTupleChanges (SpecDiff)                          *)
(* ---------------------------------------------------------------------- *)
DiffReturned == call.fn = "calculateTupleChanges" /\ call.returned

(* C2: toAdd is exactly the desired tuples equal to no existing tuple, and *)
(* toRemove exactly the existing tuples equal to no desired tuple, where   *)
(* tuples are equal when their three fields are equal strings.             *)
C2_DiffIsSetDifference ==
    DiffReturned =>
        /\ Range(call.tuplesToAdd) = Range(call.new) \ Range(call.existing)
        /\ Range(call.tuplesToDelete) = Range(call.existing) \ Range(call.new)

(* C3: removing toRemove from the existing tuples and adding toAdd gives   *)
(* the desired tuples, as sets of triples.                                 *)
C3_DiffRoundTrip ==
    DiffReturned =>
        (Range(call.existing) \ Range(call.tuplesToDelete))
            \cup Range(call.tuplesToAdd) = Range(call.new)

(* ---------------------------------------------------------------------- *)
(* Properties of evaluateMappings (SpecEval)                               *)
(* ---------------------------------------------------------------------- *)
EvalReturned == call.fn = "evaluateMappings" /\ call.returned

(* a rule on its own: does it match the event *)
RuleMatches(ev, rule) ==
    \/ rule.Condition = CNone
    \/ LET c == evaluateCondition(rule.Condition, ev) IN c.err = "" /\ c.result

(* a rule on its own: does its condition or its rendering fail *)
RuleFails(ev, rule) ==
    \/ rule.Condition # CNone /\ evaluateCondition(rule.Condition, ev).err # ""
    \/ RuleMatches(ev, rule) /\ processTemplates(rule.Tuple, ev).err # ""

(* the rendered tuples of the rules that match, in rule order *)
RenderedMatches(ev, mappings) ==
    LET matched == SelectSeq(mappings, LAMBDA rule : RuleMatches(ev, rule)) IN
    [i \in 1..Len(matched) |-> processTemplates(matched[i].Tuple, ev).tuple]

(* C10: a call that returns no error returns, in rule order, one rendered  *)
(* tuple for each rule whose condition is empty or true and nothing for    *)
(* the other rules; each rule matches or not on its own.                   *)
C10_OneTuplePerMatchingRule ==
    (EvalReturned /\ call.err = "") =>
        call.results = RenderedMatches(call.event, call.mappings)

(* a call with a rule whose condition is false followed by a rule with no  *)
(* condition has returned the one tuple of the second rule                 *)
C10_Witness ==
    /\ EvalReturned /\ call.err = ""
    /\ Len(call.mappings) = 2 /\ Len(call.results) = 1
    /\ call.mappings[1].Condition # CNone
    /\ ~RuleMatches(call.event, call.mappings[1])
    /\ call.mappings[2].Condition = CNone

(* ---------------------------------------------------------------------- *)
(* Properties of the handlers (Spec)                                       *)
(* ---------------------------------------------------------------------- *)
Desired(w) == evaluateMappings(event[w], config[w].Mappings)

AnyRuleFails(w) ==
    \E i \in 1..Len(config[w].Mappings) :
        RuleFails(event[w], config[w].Mappings[i])

NoStoreCall(w) == reads[w] = 0 /\ writes[w] = <<>>

EntityKey(w) ==
    IF config[w] = OrgConfig THEN orgKey(extractUserID(event[w]).id)
    ELSE userKey(extractUserID(event[w]).id)

C6_DeleteRemovesEveryTuple ==
    \A w \in Callers :
        (Succeeded(w, "delete") /\ extractUserID(event[w]).err = "") =>
            \A t \in store : t.User # EntityKey(w) /\ t.Object # EntityKey(w)

(* C7: a create event never reads; with desired tuples it sends one Write  *)
(* of them all as additions and no deletion, with none it calls the store  *)
(* not at all and succeeds.                                                *)
C7_CreateWritesOnce ==
    \A w \in Callers :
        (handler[w] = "create" /\ Desired(w).err = "") =>
            /\ reads[w] = 0
            /\ IF Desired(w).results = <<>>
               THEN pc[w] = "done" /\ err[w] = "" /\ writes[w] = <<>>
               ELSE /\ body[w] = ClientWriteRequest(Desired(w).results, <<>>)
                    /\ \/ pc[w] = "write" /\ writes[w] = <<>>
                       \/ pc[w] = "done" /\ writes[w] = <<body[w]>>

C7_Witness ==
    \E w \in Callers :
        /\ Succeeded(w, "create") /\ Len(writes[w]) = 1
        /\ BagCardinality(writes[w][1].Writes) = 2

(* C8: the handler run is the action of the first EventMapping of the      *)
(* event's type; an event with no type, a type that is no string, a type   *)
(* no EventMapping has, or an action that is none of the three, is an      *)
(* error with no store call.                                               *)
Routed(w, i) ==
    /\ MapIndex(JMap(event[w]), "type").kind = "string"
    /\ i \in 1..Len(config[w].Events)
    /\ config[w].Events[i].Type = event[w]["type"].s
    /\ \A j \in 1..(i - 1) : config[w].Events[j].Type # event[w]["type"].s

C8_Routing ==
    \A w \in Callers :
        pc[w] # "idle" =>
            IF \E i \in 1..Len(config[w].Events) :
                  /\ Routed(w, i)
                  /\ config[w].Events[i].Action
                        \in {"create", "update", "delete"}
            THEN \E i \in 1..Len(config[w].Events) :
                    Routed(w, i) /\ handler[w] = config[w].Events[i].Action
            ELSE /\ pc[w] = "done" /\ err[w] # "" /\ handler[w] = ""
                 /\ NoStoreCall(w)

(* an event type listed twice is handled by the first action listed *)
C8_Witness ==
    \E w \in Callers :
        /\ pc[w] = "done" /\ handler[w] = "delete" /\ Len(writes[w]) = 1
        /\ Routed(w, 1)
        /\ config[w].Events[2].Type = config[w].Events[1].Type
        /\ config[w].Events[2].Action = "update"

(* C9: when a rule's condition or rendering fails, the handler returns an  *)
(* error, holds no tuples and has called the store not at all, also when   *)
(* rules before it matched and rendered.                                   *)
C9_FailFast ==
    \A w \in Callers :
        (handler[w] \in {"create", "update", "delete"} /\ AnyRuleFails(w)) =>
            /\ pc[w] = "done" /\ err[w] # ""
            /\ newTuples[w] = <<>> /\ body[w] = NoBody
            /\ NoStoreCall(w)

C9_Witness ==
    \E w \in Callers :
        /\ handler[w] = "update" /\ pc[w] = "done"
        /\ Len(config[w].Mappings) = 2
        /\ RuleMatches(event[w], config[w].Mappings[1])
        /\ ~RuleFails(event[w], config[w].Mappings[1])
        /\ RuleFails(event[w], config[w].Mappings[2])

(* ---------------------------------------------------------------------- *)
(* Properties of concurrent updates (SpecConc)                             *)
(* ---------------------------------------------------------------------- *)
(* C4: a Write computed from a read that no other writer has invalidated   *)
(* leaves the entity's stored tuples equal to the event's desired set: a   *)
(* lost update needs a Write computed from an invalidated read.            *)
C4_FreshWriteReconciles ==
    [][\A w \in Callers :
          (/\ StoreWrite(w)
           /\ handler[w] = "update"
           /\ Range(existingTuples[w]) = Scope(store, entityID[w]))
          => Scope(store', entityID[w]) = Range(newTuples[w])]_vars

(* C4: the lost update: both updates of user x have succeeded, and the     *)
(* user's stored tuples are neither event's desired set.                   *)
C4_LostUpdate ==
    /\ Succeeded(1, "update") /\ Succeeded(2, "update")
    /\ entityID[1] = entityID[2]
    /\ Len(writes[1]) = 1 /\ Len(writes[2]) = 1
    /\ Scope(store, entityID[1]) # Range(newTuples[1])
    /\ Scope(store, entityID[1]) # Range(newTuples[2])

(* ---------------------------------------------------------------------- *)
(* Properties of readExistingTuples (Spec)                                 *)
(* ---------------------------------------------------------------------- *)
(* the tuples of the store whose subject or object is the event's entity *)
TuplesOfEntity(w) ==
    {t \in store : t.User = EntityKey(w) \/ t.Object = EntityKey(w)}

(* C13: the existing tuples that update and fallback delete work on are    *)
(* exactly the store's tuples whose subject or object is the entity, so a  *)
(* tuple whose object is user:x is among them.  Stated where the handler   *)
(* has read and not yet written: the store is as it was read.              *)
C13_ScopeIsSubjectOrObject ==
    \A w \in Callers :
        (pc[w] = "write" /\ reads[w] = 1) =>
            Range(existingTuples[w]) = TuplesOfEntity(w)

(* ---------------------------------------------------------------------- *)
(* Properties of processTemplate (Spec)                                    *)
(* ---------------------------------------------------------------------- *)
(* the path leads to a value of the event: every field of it is a key *)
RECURSIVE PathExists(_, _)
PathExists(v, path) ==
    \/ path = <<>>
    \/ /\ v.kind = "map"
       /\ Head(path) \in DOMAIN v.m
       /\ PathExists(v.m[Head(path)], Tail(path))

(* a placeholder of the template names a path the event does not have *)
MissingField(templateStr, ev) ==
    \E i \in 1..Len(templateStr) :
        /\ templateStr[i].kind = "field"
        /\ ~PathExists(JMap(ev), templateStr[i].path)

RuleMissesField(ev, rule) ==
    /\ RuleMatches(ev, rule)
    /\ \/ MissingField(rule.Tuple.User, ev)
       \/ MissingField(rule.Tuple.Relation, ev)
       \/ MissingField(rule.Tuple.Object, ev)

(* C17: a matched rule with a placeholder whose path the event does not    *)
(* have fails the event: the handler returns an error, holds no tuple and  *)
(* sends no Write.                                                         *)
C17_MissingFieldFails ==
    \A w \in Callers :
        (/\ handler[w] \in {"create", "update", "delete"}
         /\ \E i \in 1..Len(config[w].Mappings) :
               RuleMissesField(event[w], config[w].Mappings[i]))
        => /\ pc[w] = "done" /\ err[w] # ""
           /\ newTuples[w] = <<>> /\ NoStoreCall(w)

(* ---------------------------------------------------------------------- *)
(* Algebra of calculateTupleChanges (SpecDiff)                             *)
(* ---------------------------------------------------------------------- *)
(* C19: when existing and desired hold the same set of triples, in any     *)
(* order and with any duplicates, both results are empty.                  *)
C19_DiffIdempotent ==
    (DiffReturned /\ Range(call.existing) = Range(call.new)) =>
        call.tuplesToAdd = <<>> /\ call.tuplesToDelete = <<>>

(* the same two triples, which share a key, listed in opposite orders *)
C19_Witness ==
    /\ DiffReturned
    /\ Range(call.existing) = Range(call.new)
    /\ Len(call.existing) = 2 /\ call.existing # call.new
    /\ call.existing[1] # call.existing[2]
    /\ TupleKey(call.existing[1]) = TupleKey(call.existing[2])

(* C20: the additions of calculateTupleChanges(a, b) and the deletions of  *)
(* calculateTupleChanges(b, a) are the same set of triples.                *)
C20_DiffSymmetric ==
    (call.fn = "calculateTupleChanges both ways" /\ call.calls = 2) =>
        Range(call.forward[1]) = Range(call.backward[2])

(* both calls have returned, a has a triple b lacks and b one a lacks *)
C20_Witness ==
    /\ call.fn = "calculateTupleChanges both ways" /\ call.calls = 2
    /\ call.forward[1] # <<>> /\ call.forward[2] # <<>>
    /\ Range(call.forward[1]) # Range(call.forward[2])

(* ---------------------------------------------------------------------- *)
(* Properties of extractUserID (SpecExtract)                               *)
(* ---------------------------------------------------------------------- *)
ExtractionPaths ==
    <<P("user_id"), P("id"), P2("user", "user_id")>>

PresentPaths(ev) ==
    {i \in 1..Len(ExtractionPaths) : PathExists(JMap(ev), ExtractionPaths[i])}

(* C14: the ID returned is the value at the first of the three paths that  *)
(* is present in the event, and there is an error only when none is.       *)
C14_FirstPresentWins ==
    (call.fn = "extractUserID" /\ call.returned) =>
        LET present == PresentPaths(call.event) IN
        IF present = {}
        THEN call.err # ""
        ELSE LET first == CHOOSE i \in present : \A j \in present : i <= j IN
             /\ call.err = ""
             /\ JStr(call.id)
                  = Fetch(JMap(call.event), ExtractionPaths[first]).v

(* ---------------------------------------------------------------------- *)
(* Properties of MultiConfigProcessor.ProcessEvent (SpecMulti)             *)
(* ---------------------------------------------------------------------- *)
(* the rule sets of the list that list the event's type, each once, in the *)
(* order of the list; none when the event has no type                      *)
RECURSIVE RuleSetsListing(_, _)
RuleSetsListing(configs, ev) ==
    IF configs = <<>> \/ MapIndex(JMap(ev), "type").kind # "string" THEN <<>>
    ELSE (IF \E m \in Range(Head(configs).Events) : m.Type = ev["type"].s
          THEN <<Head(configs)>> ELSE <<>>)
            \o RuleSetsListing(Tail(configs), ev)

IsPrefix(p, q) == Len(p) <= Len(q) /\ p = SubSeq(q, 1, Len(p))

DetailsReturned == call.fn = DetailsName /\ call.stage = "returned"

(* the Write the store has applied for the event, if any *)
AppliedWrite ==
    IF writes[1] # <<>> /\ err[1] = "" THEN writes[1][1] ELSE NoBody

(* C15: for an event processed successfully with a store client, the       *)
(* result's TuplesAdded are exactly the tuples written to the store and    *)
(* its TuplesDeleted exactly the tuples deleted from it.                   *)
C15_ResultReportsTheWrite ==
    (DetailsReturned /\ ~call.isDryRun /\ call.err = "") =>
        /\ Range(call.result.TuplesAdded) = BagToSet(AppliedWrite.Writes)
        /\ Range(call.result.TuplesDeleted) = BagToSet(AppliedWrite.Deletes)

(* C16: in dry-run mode ProcessEventWithDetails enters no handler, reads   *)
(* nothing and writes nothing, for every event of every action; it has     *)
(* returned as soon as it has decided.                                     *)
C16_DryRunTouchesNoStore ==
    (call.fn = DetailsName /\ call.isDryRun) =>
        /\ call.stage \in {"called", "returned"}
        /\ call.reads = 0 /\ NoStoreCall(1)
        /\ pc[1] = "idle" /\ body[1] = NoBody
        /\ store = call.before

(* a dry run of a delete event whose rules give a tuple that is stored *)
C16_Witness ==
    /\ DetailsReturned /\ call.isDryRun /\ call.err = ""
    /\ call.result.Action = "delete"
    /\ Range(call.result.TuplesDeleted) \cap store # {}

(* ---------------------------------------------------------------------- *)
(* Properties of the webhook service (SpecWebhook)                         *)
(* ---------------------------------------------------------------------- *)
(* the request carries an event with a type, and no rule set is selected   *)
(* for the type or the selected one has no create, update or delete action *)
(* for it                                                                  *)
UnroutedEvent ==
    /\ call.request.body = "json"
    /\ \/ ~ChecksSignature(call.cfg)
       \/ verifyWebhookSignature(call.request.signature)
    /\ MapIndex(JMap(call.request.event), "type").kind = "string"
    /\ LET type == call.request.event["type"].s
           chosen == mappingConfig(WebhookService, type)
       IN \/ chosen = <<>>
          \/ \A m \in Range(chosen[1].Events) : m.Type # type

(* C18: the webhook answers 200 "processed" and touches no store for every *)
(* event whose type has no matching action or rule set.                    *)
C18_WebhookIgnoresUnrouted ==
    (call.fn = WebhookName /\ call.stage = "responded" /\ UnroutedEvent) =>
        /\ call.response = Response(200, "processed")
        /\ NoStoreCall(1) /\ store = call.before

HasNoDuplicates(tuples) ==
    \A i, j \in DOMAIN tuples : tuples[i] = tuples[j] => i = j

(* C21: no triple occurs twice in toAdd nor twice in toRemove, whatever    *)
(* the two input lists repeat.                                             *)
C21_OutputsHaveNoDuplicates ==
    DiffReturned =>
        /\ HasNoDuplicates(call.tuplesToAdd)
        /\ HasNoDuplicates(call.tuplesToDelete)

(* the desired list names one triple twice and it is added once *)
C21_Witness ==
    /\ DiffReturned
    /\ ~HasNoDuplicates(call.new)
    /\ Len(call.tuplesToAdd) = 1
    /\ call.existing = <<>>

(* C22: one event under one rule set makes at most one Write; an update    *)
(* puts its additions and its removals in that one Write and makes no      *)
(* Write when both are empty; a failed Read or Write is returned as the    *)
(* error, with no second attempt and, for the Read, with no Write.         *)
C22_AtMostOneWrite ==
    \A w \in Callers :
        /\ Len(writes[w]) <= 1
        /\ reads[w] <= 1
        /\ (/\ handler[w] = "update"
            /\ reads[w] = 1
            /\ err[w] # "failed to read existing tuples") =>
               \E changes \in calculateTupleChanges(existingTuples[w],
                                                    newTuples[w]) :
                   IF changes[1] = <<>> /\ changes[2] = <<>>
                   THEN pc[w] = "done" /\ writes[w] = <<>> /\ err[w] = ""
                   ELSE /\ body[w] = ClientWriteRequest(changes[1], changes[2])
                        /\ \/ pc[w] = "write" /\ writes[w] = <<>>
                           \/ pc[w] = "done" /\ writes[w] = <<body[w]>>
        /\ err[w] = "failed to read existing tuples" =>
               pc[w] = "done" /\ reads[w] = 1 /\ writes[w] = <<>>
        /\ err[w] = "failed to write tuples" =>
               pc[w] = "done" /\ writes[w] = <<body[w]>>

(* an update whose one Write held both an addition and a removal *)
C22_Witness ==
    \E w \in Callers :
        /\ Succeeded(w, "update")
        /\ Len(writes[w]) = 1
        /\ writes[w][1].Writes # EmptyBag
        /\ writes[w][1].Deletes # EmptyBag

(* C23: an event with none of the three ID paths makes an update, and a    *)
(* delete whose rules gave no tuple, fail with the extraction error and    *)
(* no store call; a delete whose rules gave tuples is sent as usual.       *)
C23_NoEntityIDFails ==
    \A w \in Callers :
        (/\ handler[w] \in {"update", "delete"}
         /\ Desired(w).err = ""
         /\ PresentPaths(event[w]) = {}) =>
            IF handler[w] = "delete" /\ Desired(w).results # <<>>
            THEN /\ err[w] # "failed to extract user ID"
                 /\ reads[w] = 0
                 /\ body[w] = ClientWriteRequest(<<>>, Desired(w).results)
                 /\ \/ pc[w] = "write" /\ writes[w] = <<>>
                    \/ pc[w] = "done" /\ writes[w] = <<body[w]>>
            ELSE /\ pc[w] = "done"
                 /\ err[w] = "failed to extract user ID"
                 /\ NoStoreCall(w)

(* an update of an object with no ID has returned the extraction error *)
C23_Witness ==
    \E w \in Callers :
        /\ handler[w] = "update"
        /\ Desired(w).err = ""
        /\ PresentPaths(event[w]) = {}
        /\ pc[w] = "done"
        /\ err[w] = "failed to extract user ID"

(* ---------------------------------------------------------------------- *)
(* One caller processes two events one after the other, each under its     *)
(* own rule set; the outcome of the first call is kept in `call`.          *)
(* ---------------------------------------------------------------------- *)
SequenceName == "ProcessEvent in sequence"

(* the <<event, rule set>> pairs of the two calls *)
SequenceCalls ==
    LET user == ("user_id" :> JStr("x"))
        member == ("user" :> JMap("user_id" :> JStr("x")))
                      @@ ("role" :> JMap("id" :> JStr("admin")))
                      @@ ("organization" :> JMap("id" :> JStr("o")))
        org == ("id" :> JStr("x"))
                   @@ ("metadata" :> JMap("tier" :> JStr("gold")))
    IN { <<Event(type, object), UserConfig>> :
            type \in {"user.created", "user.updated"},
            object \in {user, user @@ ("email_verified" :> JBool(TRUE))} }
       \cup { <<Event("organization.member.added", member), MemberConfig>>,
              <<Event("organization.created", org), OrgConfig>>,
              <<Event("organization.updated", org), OrgConfig>> }

InitSequence ==
    /\ EngineReady({1},
                   { ProcessedTuple("user:x", "email_verified", "user:x"),
                     ProcessedTuple("user:y", "manager", "user:x"),
                     ProcessedTuple("user:x", "is_role",
                                    "role:admin#organization:o"),
                     ProcessedTuple("user:x", "is_role#role:admin",
                                    "organization:o") })
    /\ call \in {[fn |-> SequenceName, stage |-> "called", before |-> store,
                   events |-> <<a[1], b[1]>>, configs |-> <<a[2], b[2]>>,
                   first |-> [handler |-> "", err |-> "", reads |-> 0,
                              writes |-> <<>>]]
                    : a \in SequenceCalls, b \in SequenceCalls}

(* the caller hands over the first event *)
SequenceFirst ==
    /\ call.fn = SequenceName
    /\ call.stage = "called"
    /\ Enter(1, call.events[1], call.configs[1],
             Dispatch(call.events[1], call.configs[1]))
    /\ call' = [call EXCEPT !.stage = "first"]

(* the first call has returned; the caller hands over the second event *)
SequenceSecond ==
    /\ call.fn = SequenceName
    /\ call.stage = "first"
    /\ pc[1] = "done"
    /\ Enter(1, call.events[2], call.configs[2],
             Dispatch(call.events[2], call.configs[2]))
    /\ call' = [call EXCEPT !.stage = "second",
                            !.first = [handler |-> handler[1],
                                       err |-> err[1],
                                       reads |-> reads[1],
                                       writes |-> writes[1]]]

(* the second call has returned *)
SequenceReturns ==
    /\ call.fn = SequenceName
    /\ call.stage = "second"
    /\ pc[1] = "done"
    /\ call' = [call EXCEPT !.stage = "returned"]
    /\ UNCHANGED engineVars

NextSequence ==
    \/ SequenceFirst
    \/ SequenceSecond
    \/ SequenceReturns
    \/ StoreRead(1)
    \/ StoreReadFails(1)
    \/ StoreWrite(1)
    \/ StoreWriteFails(1)

SpecSequence == InitSequence /\ [][NextSequence]_vars

(* ---------------------------------------------------------------------- *)
(* Properties of two calls in sequence (SpecSequence)                      *)
(* ---------------------------------------------------------------------- *)
InSecondCall ==
    call.fn = SequenceName /\ call.stage \in {"second", "returned"}

SameCallTwice ==
    call.events[1] = call.events[2] /\ call.configs[1] = call.configs[2]

(* C24: the same create event processed twice sends its additions twice:   *)
(* the second call makes no Read and sends the Write the first call sent,  *)
(* whatever the store holds.                                               *)
C24_CreateTwiceWritesTwice ==
    (/\ InSecondCall
     /\ SameCallTwice
     /\ call.first.handler = "create"
     /\ call.first.writes # <<>>) =>
        /\ reads[1] = 0
        /\ body[1] = call.first.writes[1]
        /\ body[1].Deletes = EmptyBag
        /\ \/ pc[1] = "write" /\ writes[1] = <<>>
           \/ pc[1] = "done" /\ writes[1] = call.first.writes

(* both calls wrote the same tuple, which the store held after the first *)
C24_Witness ==
    /\ InSecondCall
    /\ SameCallTwice
    /\ call.stage = "returned"
    /\ call.first.handler = "create"
    /\ call.first.err = ""
    /\ err[1] = ""
    /\ Len(call.first.writes) = 1
    /\ writes[1] = call.first.writes
    /\ BagToSet(writes[1][1].Writes) \subseteq store

(* C29: an update under one rule set leaves in the store every tuple that  *)
(* an earlier call wrote for the same entity under another rule set.       *)
C29_OtherRuleSetsTuplesSurvive ==
    (/\ InSecondCall
     /\ call.configs[1] # call.configs[2]
     /\ call.first.err = ""
     /\ call.first.writes # <<>>
     /\ Succeeded(1, "update")
     /\ extractUserID(call.events[1]).id = entityID[1]) =>
        BagToSet(call.first.writes[1].Writes) \subseteq store

(* ---------------------------------------------------------------------- *)
(* Entity types (Spec)                                                     *)
(* ---------------------------------------------------------------------- *)
(* C30: an update or a fallback delete of an organization removes no tuple *)
(* whose subject is the user of the same ID, and removes only tuples that  *)
(* were in the store when it was read.                                     *)
C30_OtherTypeUntouched ==
    \A w \in Callers :
        (/\ handler[w] \in {"update", "delete"}
         /\ reads[w] = 1
         /\ pc[w] \in {"write", "done"}) =>
            /\ BagToSet(body[w].Deletes) \subseteq Range(existingTuples[w])
            /\ (/\ config[w] = OrgConfig
                /\ MapIndex(MapIndex(MapIndex(JMap(event[w]), "data"),
                                     "object"), "id") = JStr(entityID[w])) =>
                 \A t \in BagToSet(body[w].Deletes) :
                     t.User # userKey(entityID[w])

(* ---------------------------------------------------------------------- *)
(* evaluateCondition called directly with the presence-guarded condition   *)
(* "X != nil && X.f != nil"                                                *)
(* ---------------------------------------------------------------------- *)
Guarded(X, f) == CAnd(CNeNil(X), CNeNil(Append(X, f)))

(* X is a key of the event, or a key of data.object *)
GuardedPaths == {<<"metadata">>, P("metadata")}

(* events with and without metadata, at the top and in data.object; with  *)
(* no data, and with no data.object                                       *)
ConditionEvents ==
    LET values == {JNull, JStr("none"), JMap(EmptyMap),
                   JMap("manager" :> JNull),
                   JMap("manager" :> JStr("user123"))}
        withMetadata == {EmptyMap} \cup {("metadata" :> v) : v \in values}
    IN {("type" :> JStr("user.updated"))
           @@ ("data" :> JMap("object" :> JMap(object))) @@ top
          : object \in withMetadata, top \in withMetadata}
       \cup {("type" :> JStr("user.updated")),
             ("type" :> JStr("user.updated")) @@ ("data" :> JMap(EmptyMap))}

InitCondition ==
    /\ EngineUnused
    /\ call \in {[fn |-> "evaluateCondition", returned |-> FALSE,
                   X |-> X, f |-> "manager", event |-> ev,
                   result |-> FALSE, err |-> ""]
                    : X \in GuardedPaths, ev \in ConditionEvents}

EvaluateCondition ==
    /\ call.fn = "evaluateCondition"
    /\ ~call.returned
    /\ LET r == evaluateCondition(Guarded(call.X, call.f), call.event) IN
       call' = [call EXCEPT !.returned = TRUE,
                            !.result = r.result, !.err = r.err]
    /\ UNCHANGED engineVars

SpecCondition == InitCondition /\ [][EvaluateCondition]_vars

(* ---------------------------------------------------------------------- *)
(* Properties of evaluateCondition (SpecCondition)                         *)
(* ---------------------------------------------------------------------- *)
ConditionReturned == call.fn = "evaluateCondition" /\ call.returned

(* C25: "X != nil && X.f != nil" is false with no error when the event has *)
(* no X, or has X without a field f, and true when it has X.f.             *)
C25_PresenceGuard ==
    ConditionReturned =>
        LET ev == JMap(call.event)
            Xf == Append(call.X, call.f)
        IN /\ (\/ ~PathExists(ev, call.X)
               \/ PathExists(ev, call.X) /\ ~PathExists(ev, Xf)) =>
                  call.err = "" /\ ~call.result
           /\ (PathExists(ev, Xf) /\ Fetch(ev, Xf).v # JNull) =>
                  call.err = "" /\ call.result

(* the request's X-Hub-Signature-256 header is missing or is not the       *)
(* HMAC-SHA256 of the body                                                 *)
BadSignature == ~verifyWebhookSignature(call.request.signature)

(* C26: with signature verification enabled, a request with a missing or   *)
(* wrong signature never reaches the engine and is answered 401, with no   *)
(* store call and the store unchanged.                                     *)
C26_BadSignatureRejected ==
    (/\ call.fn = WebhookName
     /\ call.cfg.VerifySignature
     /\ call.request.body # "unreadable"
     /\ BadSignature) =>
        /\ call.stage # "engine"
        /\ NoStoreCall(1) /\ store = call.before
        /\ call.stage = "responded" =>
               call.response = Response(401, "Invalid signature")

(* the signature is checked and good, or not checked at all *)
SignaturePasses ==
    ~ChecksSignature(call.cfg) \/ ~BadSignature

MaxBatch == 2

ProcessingResult(eventType, success, error, added, deleted) ==
    [EventType |-> eventType, Success |-> success, Error |-> error,
     TuplesAdded |-> added, TuplesDeleted |-> deleted]

(* the four rule sets NewEventProcessor has loaded *)
EventProcessor ==
    [userConfig |-> UserConfig, orgConfig |-> OrgConfig,
     orgMemberConfig |-> MemberConfig, orgRoleConfig |-> RoleConfig]

(* processEvent: the rule set selected by the event type, or none *)
selectMappingConfig(ep, eventType) ==
    IF HasPrefix(eventType, "user.") THEN <<ep.userConfig>>
    ELSE IF HasPrefix(eventType, "organization.")
              /\ ~Contains(eventType, "member")
         THEN <<ep.orgConfig>>
    ELSE IF Contains(eventType, "organization.member.role")
         THEN <<ep.orgRoleConfig>>
    ELSE IF Contains(eventType, "organization.member")
         THEN <<ep.orgMemberConfig>>
    ELSE <<>>

(* processEvent: what it returns once the engine has returned *)
EngineResult(eventType, error, result) ==
    IF error # ""
    THEN ProcessingResult(eventType, FALSE, error, <<>>, <<>>)
    ELSE ProcessingResult(eventType, TRUE, "", result.TuplesAdded,
                          result.TuplesDeleted)

(* A loop that would keep the results of the successful events only *)
appendSuccessful(results, result) ==
    IF result.Success THEN Append(results, result) ELSE results

(* results = append(results, result) *)
appendResult(results, result) == Append(results, result)

(* printSummary: the two counters it prints, and the division that gives   *)
(* the average duration, totalDuration/time.Duration(len(results)): an     *)
(* integer division, which panics at run time when the divisor is zero.    *)
printSummary(results) ==
    LET Failed == {k \in DOMAIN results : ~results[k].Success} IN
    [successful |-> Len(results) - Cardinality(Failed),
     failed |-> Cardinality(Failed),
     panic |-> IF Len(results) = 0 THEN "integer divide by zero" ELSE ""]

BatchName == "ProcessEvents"

BatchEvents ==
    { Event("user.created",
            ("user_id" :> JStr("x")) @@ ("email_verified" :> JBool(TRUE))),
      Event("user.updated", ("user_id" :> JStr("x"))),
      Event("user.updated", EmptyMap),
      Event("unknown.event.type", ("user_id" :> JStr("x"))),
      ("data" :> JMap("object" :> JMap("user_id" :> JStr("x")))) }

InitBatch ==
    /\ EngineReady({1}, {ProcessedTuple("user:x", "blocked", "user:x")})
    /\ call \in {[fn |-> BatchName, stage |-> "loop", dryRun |-> dry,
                   events |-> evs, i |-> 1, results |-> <<>>,
                   result |-> NoResult,
                   summary |-> [successful |-> 0, failed |-> 0,
                                panic |-> ""]]
                    : dry \in BOOLEAN, evs \in SeqsUpTo(BatchEvents, MaxBatch)}

(* the event of the current iteration and its rule set *)
BatchEvent == call.events[call.i]

BatchConfig == selectMappingConfig(EventProcessor, BatchEvent["type"].s)[1]

(* the iteration ends: its result is appended and the loop goes on *)
BatchAppends(result) ==
    call' = [call EXCEPT !.results = appendResult(@, result),
                         !.i = @ + 1, !.stage = "loop",
                         !.result = NoResult]

(* One iteration of ProcessEvents: processEvent up to the engine's first   *)
(* store call, or to its return.                                           *)
BatchProcessEvent ==
    /\ call.fn = BatchName /\ call.stage = "loop"
    /\ call.i <= Len(call.events)
    /\ IF MapIndex(JMap(BatchEvent), "type").kind # "string"
       THEN /\ BatchAppends(ProcessingResult(
                   "unknown", FALSE, "event type not found or not a string",
                   <<>>, <<>>))
            /\ UNCHANGED engineVars
       ELSE LET eventType == BatchEvent["type"].s IN
            IF selectMappingConfig(EventProcessor, eventType) = <<>>
            THEN /\ BatchAppends(ProcessingResult(
                        eventType, FALSE,
                        "no mapping configuration found for event type",
                        <<>>, <<>>))
                 /\ UNCHANGED engineVars
            ELSE LET d == ProcessEventWithDetails(BatchEvent, BatchConfig,
                                                  call.dryRun)
                 IN IF d.next = "returned"
                    THEN /\ BatchAppends(EngineResult(eventType, d.err,
                                                      d.result))
                         /\ UNCHANGED engineVars
                    ELSE /\ call' = [call EXCEPT !.stage = d.next,
                                                 !.result = d.result]
                         /\ IF d.next = "handler"
                            THEN Enter(1, BatchEvent, BatchConfig, d.step)
                            ELSE UNCHANGED engineVars

(* The store answers the Read of ProcessEventWithDetails' update branch *)
BatchRead ==
    /\ call.fn = BatchName /\ call.stage = "read"
    /\ \E existing \in readExistingTuples(store,
                                         extractUserID(BatchEvent).id) :
       \E changes \in calculateTupleChanges(
                         existing,
                         evaluateMappings(BatchEvent,
                                          BatchConfig.Mappings).results) :
          call' = [call EXCEPT !.stage = "handler",
                               !.result.TuplesAdded = changes[1],
                               !.result.TuplesDeleted = changes[2]]
    /\ Enter(1, BatchEvent, BatchConfig,
             processUpdateEvent(BatchEvent, BatchConfig))

(* The store fails that Read: the event has failed *)
BatchReadFails ==
    /\ call.fn = BatchName /\ call.stage = "read"
    /\ BatchAppends(EngineResult(BatchEvent["type"].s,
                                 "failed to read existing tuples", NoResult))
    /\ UNCHANGED engineVars

(* The handler has returned: the event's result is appended *)
BatchHandlerReturns ==
    /\ call.fn = BatchName /\ call.stage = "handler"
    /\ pc[1] = "done"
    /\ BatchAppends(EngineResult(BatchEvent["type"].s, err[1], call.result))
    /\ UNCHANGED engineVars

(* The loop is over: ProcessEvents returns and main prints the summary,   *)
(* which ends the command, normally or with a panic.                      *)
BatchReturns ==
    /\ call.fn = BatchName /\ call.stage = "loop"
    /\ call.i > Len(call.events)
    /\ LET s == printSummary(call.results) IN
       call' = [call EXCEPT !.stage = IF s.panic = "" THEN "returned"
                                      ELSE "panic",
                            !.summary = s]
    /\ UNCHANGED engineVars

NextBatch ==
    \/ BatchProcessEvent
    \/ BatchRead
    \/ BatchReadFails
    \/ BatchHandlerReturns
    \/ BatchReturns
    \/ StoreRead(1)
    \/ StoreReadFails(1)
    \/ StoreWrite(1)
    \/ StoreWriteFails(1)

SpecBatch == InitBatch /\ [][NextBatch]_vars

(* ---------------------------------------------------------------------- *)
(* Properties of the batch command (SpecBatch)                             *)
(* ---------------------------------------------------------------------- *)
(* the type processEvent reports for an event *)
ReportedType(ev) ==
    IF MapIndex(JMap(ev), "type").kind = "string" THEN ev["type"].s
    ELSE "unknown"

(* C28: ProcessEvents returns one result for each event, in the order of   *)
(* the events; an event that fails has a failed result and the events      *)
(* after it are still processed; the summary's successful and failed       *)
(* counts add up to the number of events.                                  *)
C28_OneResultPerEvent ==
    call.fn = BatchName =>
        /\ Len(call.results) = call.i - 1
        /\ call.i <= Len(call.events) + 1
        /\ \A k \in DOMAIN call.results :
              /\ call.results[k].EventType = ReportedType(call.events[k])
              /\ call.results[k].Success <=> call.results[k].Error = ""
              /\ ReportedType(call.events[k])
                    \in {"unknown", "unknown.event.type"} =>
                       ~call.results[k].Success
        /\ call.stage = "returned" =>
              /\ Len(call.results) = Len(call.events)
              /\ call.summary.successful + call.summary.failed
                    = Len(call.events)
              /\ call.summary.failed
                    = Cardinality({k \in DOMAIN call.results :
                                      ~call.results[k].Success})

(* a batch whose first event failed and whose second event succeeded *)
C28_Witness ==
    /\ call.fn = BatchName /\ call.stage = "returned"
    /\ Len(call.events) = 2
    /\ ~call.results[1].Success
    /\ call.results[2].Success
    /\ call.summary.successful = 1
    /\ call.summary.failed = 1

(* C31: the same update event processed a second time, after the first     *)
(* processing succeeded and with no other writer, finds nothing to add and *)
(* nothing to remove and sends no Write.                                   *)
C31_UpdateTwiceWritesOnce ==
    (/\ InSecondCall
     /\ SameCallTwice
     /\ call.first.handler = "update"
     /\ call.first.err = ""
     /\ handler[1] = "update"
     /\ reads[1] = 1
     /\ err[1] # "failed to read existing tuples") =>
        /\ pc[1] = "done"
        /\ err[1] = ""
        /\ writes[1] = <<>>
        /\ body[1] = NoBody

(* ---------------------------------------------------------------------- *)
(* ProcessEventWithDetails of an update event on an engine with a store    *)
(* client (caller 1), while another request (caller 2) updates the same    *)
(* user through ProcessEvent.                                              *)
(* ---------------------------------------------------------------------- *)
InitDetailsConc ==
    /\ EngineReady({1, 2}, DetailsTuples)
    /\ call \in {[fn |-> DetailsName, stage |-> "called", isDryRun |-> FALSE,
                   event |-> ev, config |-> UserConfig, before |-> store,
                   result |-> NoResult, err |-> "", reads |-> 0]
                    : ev \in {e \in DetailsEvents :
                                MapIndex(JMap(e), "type")
                                   = JStr("user.updated")}}

NextDetailsConc ==
    \/ DetailsCall
    \/ DetailsRead
    \/ DetailsReadFails
    \/ DetailsReturn
    \/ Call(2, ConcurrentEvents, {UserConfig})
    \/ Return(2)
    \/ \E w \in DOMAIN pc : StoreRead(w)
    \/ \E w \in DOMAIN pc : StoreReadFails(w)
    \/ \E w \in DOMAIN pc : StoreWrite(w)
    \/ \E w \in DOMAIN pc : StoreWriteFails(w)

SpecDetailsConc == InitDetailsConc /\ [][NextDetailsConc]_vars

(* C32: the TuplesAdded and TuplesDeleted reported for an update are the   *)
(* additions and removals of the Write it sent, also when another writer   *)
(* changes the user's tuples meanwhile.                                    *)
C32_ReportedDiffIsSentDiff ==
    (/\ DetailsReturned
     /\ call.err = ""
     /\ call.result.Action = "update") =>
        IF writes[1] = <<>>
        THEN call.result.TuplesAdded = <<>>
                /\ call.result.TuplesDeleted = <<>>
        ELSE /\ SeqToBag(call.result.TuplesAdded) = writes[1][1].Writes
             /\ SeqToBag(call.result.TuplesDeleted) = writes[1][1].Deletes

(* ---------------------------------------------------------------------- *)
(* The two entry points on one engine with a store client: ProcessEvent    *)
(* runs first; its outcome is kept in call.first, the store is put back to *)
(* what it was, and ProcessEventWithDetails runs on the same event and     *)
(* rule set.                                                               *)
(* ---------------------------------------------------------------------- *)
InitBoth ==
    /\ EngineReady({1}, DetailsTuples)
    /\ call \in {[fn |-> DetailsName, stage |-> "ProcessEvent",
                   isDryRun |-> FALSE, event |-> ev, config |-> cfg,
                   before |-> store, result |-> NoResult, err |-> "",
                   reads |-> 0,
                   first |-> [err |-> "", writes |-> <<>>,
                              existingTuples |-> <<>>, store |-> {}]]
                    : ev \in DetailsEvents, cfg \in DetailsConfigs}

(* the caller hands the event to ProcessEvent *)
BothProcessEvent ==
    /\ call.fn = DetailsName /\ call.stage = "ProcessEvent"
    /\ Enter(1, call.event, call.config, Dispatch(call.event, call.config))
    /\ call' = [call EXCEPT !.stage = "first"]

(* ProcessEvent has returned; the second experiment starts from the same   *)
(* store                                                                   *)
BothStartsAgain ==
    /\ call.fn = DetailsName /\ call.stage = "first"
    /\ pc[1] = "done"
    /\ call' = [call EXCEPT !.stage = "called",
                            !.first = [err |-> err[1], writes |-> writes[1],
                                       existingTuples |-> existingTuples[1],
                                       store |-> store]]
    /\ store' = call.before
    /\ pc' = [pc EXCEPT ![1] = "idle"]
    /\ event' = [event EXCEPT ![1] = NoEvent]
    /\ config' = [config EXCEPT ![1] = NoConfig]
    /\ handler' = [handler EXCEPT ![1] = ""]
    /\ newTuples' = [newTuples EXCEPT ![1] = <<>>]
    /\ entityID' = [entityID EXCEPT ![1] = ""]
    /\ existingTuples' = [existingTuples EXCEPT ![1] = <<>>]
    /\ body' = [body EXCEPT ![1] = NoBody]
    /\ err' = [err EXCEPT ![1] = ""]
    /\ reads' = [reads EXCEPT ![1] = 0]
    /\ writes' = [writes EXCEPT ![1] = <<>>]
    /\ UNCHANGED processed

NextBoth ==
    \/ BothProcessEvent
    \/ BothStartsAgain
    \/ DetailsCall
    \/ DetailsRead
    \/ DetailsReadFails
    \/ DetailsReturn
    \/ StoreRead(1)
    \/ StoreReadFails(1)
    \/ StoreWrite(1)
    \/ StoreWriteFails(1)

SpecBoth == InitBoth /\ [][NextBoth]_vars

(* the store failed no Read and no Write of either run, and answered the   *)
(* handlers' Reads alike                                                   *)
StoreFailure(error) ==
    error \in {"failed to read existing tuples", "failed to write tuples"}

SameStoreAnswers ==
    /\ ~StoreFailure(call.first.err)
    /\ ~StoreFailure(call.err)
    /\ call.first.existingTuples = existingTuples[1]

(* C33: from the same store, event and rule set, ProcessEvent and          *)
(* ProcessEventWithDetails both succeed or both fail, send the same Writes *)
(* and leave the same store.                                               *)
C33_EntryPointsAgree ==
    (/\ DetailsReturned
     /\ "first" \in DOMAIN call
     /\ SameStoreAnswers) =>
        /\ call.first.err = "" <=> call.err = ""
        /\ call.first.writes = writes[1]
        /\ call.first.store = store

(* both runs of an update have sent the same Write of an addition and a    *)
(* removal                                                                 *)
C33_Witness ==
    /\ DetailsReturned
    /\ "first" \in DOMAIN call
    /\ SameStoreAnswers
    /\ call.err = ""
    /\ call.result.Action = "update"
    /\ Len(writes[1]) = 1
    /\ writes[1][1].Writes # EmptyBag
    /\ writes[1][1].Deletes # EmptyBag
    /\ call.first.writes = writes[1]

(* ---------------------------------------------------------------------- *)
(* ProcessEvent on the engine of NewMockMappingEngine                      *)
(* ---------------------------------------------------------------------- *)
(* The engine NewMockMappingEngine builds: no store client, dry run on *)
NewMockMappingEngine == [fn |-> "ProcessEvent", fgaClient |-> "nil",
                         isDryRun |-> TRUE]

(* No store is attached to the engine: its callers see no tuples at all *)
InitDryRun == call = NewMockMappingEngine /\ EngineReady({1}, {})

(* A handler that has built the body of its Write finds isDryRun set: it   *)
(* prints the body and returns nil without calling the client.             *)
DryRunLogs(w) ==
    /\ call.isDryRun
    /\ pc[w] = "write"
    /\ pc' = [pc EXCEPT ![w] = "done"]
    /\ UNCHANGED <<store, event, config, handler, newTuples, entityID,
                   existingTuples, body, err, reads, writes, processed, call>>

(* readExistingTuples asks no flag: it calls Read on the engine's client.  *)
(* The client is nil, the call dereferences it and the goroutine panics.   *)
NilClientRead(w) ==
    /\ call.fgaClient = "nil"
    /\ pc[w] = "read"
    /\ reads' = [reads EXCEPT ![w] = @ + 1]
    /\ pc' = [pc EXCEPT ![w] = "panic"]
    /\ UNCHANGED <<store, event, config, handler, newTuples, entityID,
                   existingTuples, body, err, writes, processed, call>>

NextDryRun ==
    \/ ProcessEvent(1)
    \/ DryRunLogs(1)
    \/ NilClientRead(1)
    \/ Return(1)

SpecDryRun == InitDryRun /\ [][NextDryRun]_vars

(* C34: on a dry-run engine ProcessEvent completes every create, update    *)
(* and delete event without a store read, without a store write and        *)
(* without dereferencing the nil client.                                   *)
C34_DryRunNeverCallsStore ==
    \A w \in DOMAIN pc :
        /\ reads[w] = 0
        /\ writes[w] = <<>>
        /\ pc[w] # "panic"

(* The create handler and the delete handler whose rules gave tuples stop  *)
(* before their Write on a dry-run engine.                                 *)
DryRunWritesNothing ==
    \A w \in DOMAIN pc : writes[w] = <<>> /\ store = {}

(* The requests a caller has sent or is about to send *)
RequestsOf(w) ==
    Range(writes[w]) \cup (IF pc[w] = "write" THEN {body[w]} ELSE {})

NoTupleBothWays(request) ==
    BagToSet(request.Writes) \cap BagToSet(request.Deletes) = {}

(* C35: no Write of the engine names a tuple both among its additions and  *)
(* among its deletions: the two lists calculateTupleChanges returns have   *)
(* no tuple in common, a create Write carries no deletions and a delete    *)
(* Write carries no additions.                                             *)
C35_AdditionsAndDeletionsDisjoint ==
    /\ \A w \in DOMAIN pc : \A request \in RequestsOf(w) :
         /\ NoTupleBothWays(request)
         /\ handler[w] = "create" => request.Deletes = EmptyBag
         /\ handler[w] = "delete" => request.Writes = EmptyBag
    /\ \A w \in DOMAIN pc :
         (handler[w] = "update" /\ pc[w] = "write") =>
            \A changes \in calculateTupleChanges(existingTuples[w],
                                                 newTuples[w]) :
               Range(changes[1]) \cap Range(changes[2]) = {}
    /\ (call.fn = "calculateTupleChanges" /\ call.returned) =>
          Range(call.tuplesToAdd) \cap Range(call.tuplesToDelete) = {}

(* An update whose rules keep a tuple of the store, add one and drop one   *)
(* has sent its Write.                                                     *)
C35_Witness ==
    \E w \in DOMAIN pc :
        /\ handler[w] = "update"
        /\ Len(writes[w]) = 1
        /\ Range(existingTuples[w]) \cap Range(newTuples[w]) # {}
        /\ Range(newTuples[w]) \ Range(existingTuples[w]) # {}
        /\ Range(existingTuples[w]) \ Range(newTuples[w]) # {}

(* Direct calls whose two lists share a tuple and differ both ways *)
C35_DirectCallWitness ==
    /\ call.fn = "calculateTupleChanges"
    /\ call.returned
    /\ Range(call.existing) \cap Range(call.new) # {}
    /\ call.tuplesToAdd # <<>>
    /\ call.tuplesToDelete # <<>>

(* C36: the summary step of the batch command completes normally for every *)
(* result list, the empty one of an events file holding an empty JSON      *)
(* array included: the average duration is never a division by zero.       *)
C36_SummaryNeverDividesByZero ==
    call.fn = BatchName =>
        /\ call.stage # "panic"
        /\ call.summary.panic = ""

(* With at least one event in the file the summary step completes. *)
SummaryOfEventsCompletes ==
    (call.fn = BatchName /\ Len(call.events) > 0) => call.stage # "panic"

====
